---------------------------- MODULE Spec2Model ----------------------------
(***************************************************************************)
(* Cache / acquisition subsystem of visor-datos-abiertos:                  *)
(*   - cache.LRUCache (memory index), cache.DiskCache (disk store)         *)
(*   - dataset.DownloadManager (job registry, background pipeline)         *)
(*   - dataset.Manager.GetConnection / openConnection (handle pool)        *)
(*   - handlers.APIHandler.GetFilters (asynchronous acquisition trigger)   *)
(***************************************************************************)
EXTENDS Integers, Sequences, FiniteSets, TLC

(***************************************************************************)
(* Bounds of the model                                                     *)
(***************************************************************************)
NumIds == 1            \* dataset ids 1..NumIds
NumLKeys == 2          \* keys that the memory-index harness reads and updates
MemorySize == 2        \* memorySize handed to NewLRUCache (byte budget)
MaxEntrySize == 2      \* largest size handed to LRUCache.Set by the harness
NumReq == 2            \* HTTP requests that can be in flight together
MaxJobs == 2           \* DownloadJob objects allocated in one run
MaxRuns == 2           \* pipeline runs (either path) started in one run
MaxHandles == 2        \* handles opened by openConnection in one run
MaxTime == 3           \* clock values 1..MaxTime, in hours
MaxChunk == 2          \* body chunks of a download of announced size
MaxBlind == 1          \* body chunks of a download of unannounced size
NumCols == 2           \* columns that a filter map can name
MaxList == 2           \* longest list value of a filter
MaxLimit == 1          \* largest Limit and Offset of a query
MaxRows == 2           \* rows of the table data that GetStats reads
MaxVal == 2            \* values 1..MaxVal of its numeric column
NumRKeys == 2          \* keys of the result cache
MaxBody == 3           \* bytes of a serialized response
MaxColumns == 2        \* columns of the table that createIndexes reads

Ids == 1..NumIds

(***************************************************************************)
(* Paths of converted stores: os.TempDir()/<uuid>.duckdb and               *)
(* <cacheDir>/<uuid>.duckdb                                                *)
(***************************************************************************)
TmpPath(uuid) == [dir |-> "tmp", uuid |-> uuid]
CachePath(uuid) == [dir |-> "cache", uuid |-> uuid]

VARIABLES
  mem,        \* cache.Manager.memoryCache : the LRUCache
  recent,     \* history: keys in order of their last access, most recent first
  fill,       \* harness: number of filler keys inserted so far
  jobs,       \* DownloadManager.jobs : uuid -> pointer to a DownloadJob (0: no entry)
  heap,       \* the DownloadJob objects, by pointer
  removed,    \* history: pointers of the jobs that CleanupOldJobs deleted
  th,         \* the goroutines: HTTP requests 1..NumReq, then one per job
  runs,       \* history: pipeline runs started, per uuid and path
  fs,         \* the converted-store files, by path
  pool,       \* Manager.connections : uuid -> handle (0: no entry)
  handles,    \* the handles opened by openConnection
  now,        \* time.Now(), in hours
  crashed,    \* the process died (panic or fatal error in a goroutine)
  qry         \* a call of a query builder: its parameters and what it returned

lruVars == <<mem, recent, fill>>
sysVars == <<jobs, heap, removed, th, runs, fs, pool, handles, now, crashed, qry>>
vars == <<mem, recent, fill, jobs, heap, removed, th, runs, fs, pool, handles,
          now, crashed, qry>>

(***************************************************************************)
(* cache.LRUCache                                                          *)
(***************************************************************************)
LRUCapacity == 10

NewLRUCache(maxSize) ==
  [capacity |-> LRUCapacity, size |-> 0, maxSize |-> maxSize,
   items |-> {}, evictList |-> <<>>]

\* position of key in the eviction list (0 when absent)
ElemOf(c, key) ==
  IF \E i \in 1..Len(c.evictList) : c.evictList[i].key = key
  THEN CHOOSE i \in 1..Len(c.evictList) : c.evictList[i].key = key
  ELSE 0

RemoveAt(s, i) == SubSeq(s, 1, i - 1) \o SubSeq(s, i + 1, Len(s))

MoveToFront(s, i) == <<s[i]>> \o RemoveAt(s, i)

\* LRUCache.Get that forgets to promote the element
LRUGet_NoPromote(c, key) ==
  IF key \in c.items
  THEN [cache |-> c, value |-> c.evictList[ElemOf(c, key)].value, ok |-> TRUE]
  ELSE [cache |-> c, value |-> "", ok |-> FALSE]

\* LRUCache.Get: a hit promotes the element to the front
LRUGet(c, key) ==
  IF key \in c.items
  THEN [cache |-> [c EXCEPT !.evictList = MoveToFront(@, ElemOf(c, key))],
        value |-> c.evictList[ElemOf(c, key)].value, ok |-> TRUE]
  ELSE [cache |-> c, value |-> "", ok |-> FALSE]

\* evictOldest that leaves the recorded size as it is
evictOldest_KeepSize(c) ==
  IF c.evictList # <<>>
  THEN LET e == c.evictList[Len(c.evictList)] IN
       [c EXCEPT !.evictList = SubSeq(@, 1, Len(@) - 1),
                 !.items = @ \ {e.key}]
  ELSE c

evictOldest(c) ==
  IF c.evictList # <<>>
  THEN LET e == c.evictList[Len(c.evictList)] IN
       [c EXCEPT !.evictList = SubSeq(@, 1, Len(@) - 1),
                 !.items = @ \ {e.key},
                 !.size = @ - e.size]
  ELSE c

\* the loop "for c.evictList.Len() > c.capacity || c.size > c.maxSize"
OverBounds(c) == Len(c.evictList) > c.capacity \/ c.size > c.maxSize

RECURSIVE EvictLoop(_)
EvictLoop(c) ==
  IF OverBounds(c) /\ c.evictList # <<>> THEN EvictLoop(evictOldest(c)) ELSE c

LRUSet(c, key, value, size) ==
  IF key \in c.items
  THEN LET i == ElemOf(c, key)
           oldEntry == c.evictList[i] IN
       [c EXCEPT !.evictList =
                    MoveToFront([@ EXCEPT ![i] = [key |-> key, value |-> value,
                                                  size |-> size]], i),
                 !.size = @ - oldEntry.size + size]
  ELSE EvictLoop([c EXCEPT
         !.evictList = <<[key |-> key, value |-> value, size |-> size]>> \o @,
         !.items = @ \cup {key},
         !.size = @ + size])

LRUKeys(c) == {c.evictList[i].key : i \in 1..Len(c.evictList)}

\* LRUCache.Set up to the eviction loop: an existing entry is updated and
\* Set returns (loop FALSE), a new entry is pushed to the front
SetEnter(c, key, value, size) ==
  IF key \in c.items
  THEN [cache |-> LRUSet(c, key, value, size), loop |-> FALSE]
  ELSE [cache |-> [c EXCEPT
                     !.evictList = <<[key |-> key, value |-> value, size |-> size]>> \o @,
                     !.items = @ \cup {key},
                     !.size = @ + size],
        loop |-> TRUE]

\* LRUCache.Remove that leaves the recorded size as it is
LRURemove_KeepSize(c, key) ==
  IF key \in c.items
  THEN [c EXCEPT !.evictList = RemoveAt(@, ElemOf(c, key)),
                 !.items = @ \ {key}]
  ELSE c

LRURemove(c, key) ==
  IF key \in c.items
  THEN [c EXCEPT !.evictList = RemoveAt(@, ElemOf(c, key)),
                 !.size = @ - c.evictList[ElemOf(c, key)].size,
                 !.items = @ \ {key}]
  ELSE c

LRUClear(c) == [c EXCEPT !.items = {}, !.evictList = <<>>, !.size = 0]

(***************************************************************************)
(* dataset.DownloadJob and dataset.DownloadManager                         *)
(***************************************************************************)
StatusPending == "pending"
StatusDownloading == "downloading"
StatusProcessing == "processing"
StatusReady == "ready"
StatusFailed == "failed"

\* the zero time.Time
ZeroTime == 0

\* time.Hour, in the unit of the clock
Hour == 1

NewJob(uuid, t) ==
  [UUID |-> uuid, Status |-> StatusPending, Progress |-> 0, Error |-> "",
   ErrorMsg |-> "", StartTime |-> t, EndTime |-> ZeroTime, FileSize |-> 0,
   Downloaded |-> 0, Message |-> "Iniciando descarga..."]

\* DownloadManager.StartDownload that starts over when the registered job failed
StartDownload_Retry(j, h, uuid, t) ==
  IF j[uuid] # 0 /\ h[j[uuid]].Status # StatusFailed
  THEN [jobs |-> j, heap |-> h, job |-> j[uuid], created |-> FALSE]
  ELSE [jobs |-> [j EXCEPT ![uuid] = Len(h) + 1],
        heap |-> Append(h, NewJob(uuid, t)),
        job |-> Len(h) + 1, created |-> TRUE]

\* DownloadManager.StartDownload without the lookup of an existing job
StartDownload_NoLookup(j, h, uuid, t) ==
  [jobs |-> [j EXCEPT ![uuid] = Len(h) + 1],
   heap |-> Append(h, NewJob(uuid, t)),
   job |-> Len(h) + 1, created |-> TRUE]

\* DownloadManager.StartDownload, the part under dm.mu: returns the registry,
\* the heap, the pointer handed to the caller and whether the caller goes on
\* to launch downloadInBackground
StartDownload(j, h, uuid, t) ==
  IF j[uuid] # 0
  THEN [jobs |-> j, heap |-> h, job |-> j[uuid], created |-> FALSE]
  ELSE [jobs |-> [j EXCEPT ![uuid] = Len(h) + 1],
        heap |-> Append(h, NewJob(uuid, t)),
        job |-> Len(h) + 1, created |-> TRUE]

\* the job that dm.jobs[uuid] points to (a blank job when there is no entry)
Registered(j, h, uuid) == IF j[uuid] # 0 THEN h[j[uuid]] ELSE NewJob(0, ZeroTime)

\* DownloadManager.updateJob: updateFn(job) on the registered job, under dm.mu;
\* updated is what updateFn makes of Registered(j, h, uuid)
updateJob(j, h, uuid, updated) ==
  IF j[uuid] # 0 THEN [h EXCEPT ![j[uuid]] = updated] ELSE h

\* the update functions of downloadInBackground
UpdDownloading(job) ==
  [job EXCEPT !.Status = StatusDownloading,
              !.Message = "Descargando CSV desde CKAN..."]

\* float64(downloaded) / float64(total) * 80; the totals of the model divide
\* 80 * downloaded, so the quotient is exact
\* the download spread over the whole scale of 0..100
ProgressOf_Percent(downloaded, total) == (downloaded * 100) \div total

ProgressOf(downloaded, total) == (downloaded * 80) \div total

UpdProgress(job, downloaded, total) ==
  [job EXCEPT !.Downloaded = downloaded,
              !.FileSize = total,
              !.Progress = IF total > 0 THEN ProgressOf(downloaded, total) ELSE @]

UpdFailed(job, err, t) ==
  [job EXCEPT !.Status = StatusFailed, !.Error = err, !.ErrorMsg = err,
              !.EndTime = t, !.Message = "Error en descarga"]

\* the update before SetToMemory that already announces the job as ready
UpdProcessing_Ready(job) ==
  [job EXCEPT !.Status = StatusReady, !.Progress = 95,
              !.Message = "Registrando en cache..."]

UpdProcessing(job) ==
  [job EXCEPT !.Status = StatusProcessing, !.Progress = 95,
              !.Message = "Registrando en cache..."]

UpdReady(job, t) ==
  [job EXCEPT !.Status = StatusReady, !.Progress = 100, !.EndTime = t,
              !.Message = "Dataset listo para consultar"]

\* GetJob that hands out the pointer of the registered job
GetJob_Alias(j, h, uuid) ==
  IF j[uuid] # 0
  THEN [job |-> h[j[uuid]], ref |-> j[uuid], exists |-> TRUE]
  ELSE [job |-> NewJob(0, ZeroTime), ref |-> 0, exists |-> FALSE]

\* DownloadManager.GetJob: jobCopy := *job; return &jobCopy.  ref is the
\* registered object that the returned pointer refers to: none, the returned
\* object is new
GetJob(j, h, uuid) ==
  IF j[uuid] # 0
  THEN [job |-> [h[j[uuid]] EXCEPT
                   !.ErrorMsg = IF h[j[uuid]].Error # "" THEN h[j[uuid]].Error
                                ELSE @],
        ref |-> 0,
        exists |-> TRUE]
  ELSE [job |-> NewJob(0, ZeroTime), ref |-> 0, exists |-> FALSE]

CleanupSet_AnyAge(j, h, t) ==
  {uuid \in DOMAIN j :
     /\ j[uuid] # 0
     /\ h[j[uuid]].Status \in {StatusReady, StatusFailed}
     /\ h[j[uuid]].EndTime # ZeroTime}

\* the uuids that DownloadManager.CleanupOldJobs deletes at time t
CleanupSet(j, h, t) ==
  {uuid \in DOMAIN j :
     /\ j[uuid] # 0
     /\ h[j[uuid]].Status \in {StatusReady, StatusFailed}
     /\ h[j[uuid]].EndTime # ZeroTime
     /\ t - h[j[uuid]].EndTime > Hour}

CleanupOldJobs(j, h, t) ==
  [uuid \in DOMAIN j |-> IF uuid \in CleanupSet(j, h, t) THEN 0 ELSE j[uuid]]

(***************************************************************************)
(* Files of converted stores.  A file records the pipeline run that wrote  *)
(* it and how far that run came: "open" (database file created, no table), *)
(* "table" (CREATE TABLE data done), "final" (indexes and checkpoint done). *)
(***************************************************************************)
NoFile == [run |-> 0, st |-> "absent"]
NoPath == [dir |-> "", uuid |-> 0]
Paths == {TmpPath(u) : u \in Ids} \cup {CachePath(u) : u \in Ids}

\* size of the converted store of a dataset: dataset u has u size units
StoreSize(uuid) == uuid

\* os.Stat(path).Size(), 0 when os.Stat fails; the size of a database file
\* without a table is negligible in the unit of the model
StatSize(f, path) ==
  IF path \notin DOMAIN f \/ f[path] = NoFile \/ f[path].st = "open"
  THEN 0
  ELSE StoreSize(path.uuid)

Exists(f, path) == path \in DOMAIN f /\ f[path] # NoFile

\* cache.Manager.SetToMemory
SetToMemory(c, f, uuid, dbPath) == LRUSet(c, uuid, dbPath, StatSize(f, dbPath))

\* cache.DiskCache.Get that looks for the file under another name
DiskGet_WrongName(f, uuid) == [path |-> NoPath, ok |-> FALSE]

\* cache.DiskCache.Get
DiskGet(f, uuid) ==
  IF Exists(f, CachePath(uuid))
  THEN [path |-> CachePath(uuid), ok |-> TRUE]
  ELSE [path |-> NoPath, ok |-> FALSE]

\* os.Rename(src, dst): replaces dst, fails when src does not exist
Rename(f, src, dst) ==
  IF Exists(f, src)
  THEN [fs |-> [f EXCEPT ![dst] = f[src], ![src] = NoFile], err |-> ""]
  ELSE [fs |-> f, err |-> "rename: no such file or directory"]

\* cache.DiskCache.Set without the test for an existing destination
DiskSet_Overwrite(f, uuid, srcPath) == Rename(f, srcPath, CachePath(uuid))

\* cache.DiskCache.Set
DiskSet(f, uuid, srcPath) ==
  IF Exists(f, CachePath(uuid))
  THEN [fs |-> f, err |-> ""]
  ELSE Rename(f, srcPath, CachePath(uuid))

(***************************************************************************)
(* The query builders: Manager.buildFilterQuery (query.go) and             *)
(* Manager.buildAggregationQuery (download_manager.go).  A text is the     *)
(* sequence of the pieces it is concatenated from.  A filter value is nil, *)
(* a string or a list ([]interface{}) as the JSON decoder delivers them.   *)
(***************************************************************************)
ColNames == <<"c1", "fecha", "c3">>
Cols == {ColNames[i] : i \in 1..NumCols}

Nil == [kind |-> "nil", s |-> "", arr |-> <<>>]
Str(x) == [kind |-> "string", s |-> x, arr |-> <<>>]
List(a) == [kind |-> "list", s |-> "", arr |-> a]

Scalars == {"", "Todas", "x"}
Elems == {"x", "Todas"}
SeqsUpTo(S, n) == UNION {[1..k -> S] : k \in 0..n}
FilterValues ==
  {Nil} \cup {Str(x) : x \in Scalars} \cup {List(a) : a \in SeqsUpTo(Elems, MaxList)}
FilterMaps == UNION {[K -> FilterValues] : K \in SUBSET Cols}

\* the orders in which "for key, value := range params.Filters" can visit the
\* keys of a map
RangeOrders(filters) ==
  {p \in [1..Cardinality(DOMAIN filters) -> DOMAIN filters] :
     \A i, j \in DOMAIN p : i # j => p[i] # p[j]}

\* the test that keeps "Todas" as a value to filter by
IsSentinel_NoTodas(value) ==
  value.kind = "nil" \/ (value.kind = "string" /\ value.s = "")

\* value == nil || value == "" || value == "Todas"
IsSentinel(value) ==
  value.kind = "nil" \/ (value.kind = "string" /\ value.s \in {"", "Todas"})

\* fmt.Sprintf(`"%s"`, key)
Quote(key) == <<"\"", key, "\"">>

\* strings.Join of pieces
RECURSIVE Join(_, _)
Join(elems, sep) ==
  IF Len(elems) = 0 THEN <<>>
  ELSE IF Len(elems) = 1 THEN <<elems[1]>>
  ELSE <<elems[1], sep>> \o Join(Tail(elems), sep)

\* strings.Join of texts
RECURSIVE JoinTexts(_, _)
JoinTexts(texts, sep) ==
  IF Len(texts) = 0 THEN <<>>
  ELSE IF Len(texts) = 1 THEN texts[1]
  ELSE texts[1] \o <<sep>> \o JoinTexts(Tail(texts), sep)

Placeholders(n) == [i \in 1..n |-> "?"]

\* strings.ToLower on the strings that the parameters are drawn from
ToLower(str) ==
  CASE str = "ASC" -> "asc"
    [] str = "YEAR" -> "year"
    [] str = "SUM" -> "sum"
    [] OTHER -> str

\* a pass of the loop that writes a scalar value into the text
FilterStep_Inline(acc, key, value) ==
  IF IsSentinel(value) THEN acc
  ELSE IF value.kind = "list"
       THEN IF Len(value.arr) > 0
            THEN [query |-> acc.query \o <<" AND ">> \o Quote(key) \o <<" IN (">>
                              \o Join(Placeholders(Len(value.arr)), ",") \o <<")">>,
                  args |-> acc.args \o value.arr]
            ELSE acc
       ELSE [query |-> acc.query \o <<" AND ">> \o Quote(key)
                         \o <<" = '", value.s, "'">>,
             args |-> acc.args]

\* buildFilterQuery: one pass of the loop over params.Filters
FilterStep(acc, key, value) ==
  IF IsSentinel(value) THEN acc
  ELSE IF value.kind = "list"
       THEN IF Len(value.arr) > 0
            THEN [query |-> acc.query \o <<" AND ">> \o Quote(key) \o <<" IN (">>
                              \o Join(Placeholders(Len(value.arr)), ",") \o <<")">>,
                  args |-> acc.args \o value.arr]
            ELSE acc
       ELSE [query |-> acc.query \o <<" AND ">> \o Quote(key) \o <<" = ?">>,
             args |-> Append(acc.args, value.s)]

RECURSIVE FilterLoop(_, _, _)
FilterLoop(acc, filters, ord) ==
  IF Len(ord) = 0 THEN acc
  ELSE FilterLoop(FilterStep(acc, ord[1], filters[ord[1]]), filters, Tail(ord))

buildFilterQuery(params, ord) ==
  LET r == FilterLoop([query |-> <<"SELECT * FROM data WHERE 1=1">>, args |-> <<>>],
                      params.Filters, ord)
      lim == IF params.Limit > 0 THEN <<" LIMIT ", ToString(params.Limit)>> ELSE <<>>
      off == IF params.Offset > 0 THEN <<" OFFSET ", ToString(params.Offset)>>
             ELSE <<>>
  IN [query |-> r.query \o lim \o off, args |-> r.args]

\* buildAggregationFunction
buildAggregationFunction(agg, varAgg) ==
  LET a == ToLower(agg)
      fn == CASE a = "sum" -> "SUM"
              [] a \in {"avg", "mean"} -> "AVG"
              [] a = "min" -> "MIN"
              [] a = "max" -> "MAX"
              [] a = "median" -> "MEDIAN"
              [] a = "stddev" -> "STDDEV"
              [] OTHER -> ""
  IN IF fn = "" \/ varAgg = "" THEN <<"COUNT(*)">>
     ELSE <<fn, "(">> \o Quote(varAgg) \o <<")">>

\* strings.Contains(colLower, "fecha") || strings.Contains(colLower, "date"),
\* on the column names of the model
IsDateColumn(col) == ToLower(col) \in {"fecha"}

\* formatDateColumn
formatDateColumn(col, format) ==
  IF ~IsDateColumn(col) THEN Quote(col)
  ELSE LET f == ToLower(format) IN
       CASE f \in {"year", "año"} ->
              <<"YEAR(">> \o Quote(col) \o <<") as ", col>>
         [] f \in {"month", "mes"} ->
              <<"DATE_TRUNC('month', ">> \o Quote(col) \o <<") as ", col>>
         [] f \in {"week", "semana"} ->
              <<"DATE_TRUNC('week', ">> \o Quote(col) \o <<") as ", col>>
         [] f \in {"day", "dia"} ->
              <<"DATE_TRUNC('day', ">> \o Quote(col) \o <<") as ", col>>
         [] f \in {"quarter", "trimestre"} ->
              <<"DATE_TRUNC('quarter', ">> \o Quote(col) \o <<") as ", col>>
         [] f \in {"yearmonth", "año-mes"} ->
              <<"STRFTIME(">> \o Quote(col) \o <<", '%Y-%m') as ", col>>
         [] OTHER -> Quote(col)

\* buildAggregationQuery: one pass of the loop over params.Filters
AggStep(acc, key, value) ==
  IF IsSentinel(value) THEN acc
  ELSE IF value.kind = "list"
       THEN IF Len(value.arr) > 0
            THEN [clauses |-> Append(acc.clauses,
                                Quote(key) \o <<" IN (">>
                                  \o Join(Placeholders(Len(value.arr)), ", ")
                                  \o <<")">>),
                  args |-> acc.args \o value.arr]
            ELSE acc
       ELSE [clauses |-> Append(acc.clauses, Quote(key) \o <<" = ?">>),
             args |-> Append(acc.args, value.s)]

RECURSIVE AggLoop(_, _, _)
AggLoop(acc, filters, ord) ==
  IF Len(ord) = 0 THEN acc
  ELSE AggLoop(AggStep(acc, ord[1], filters[ord[1]]), filters, Tail(ord))

\* the builder that orders by total whenever no order column is given
buildAggregationQuery_TotalOrder(params, ord) ==
  LET selectCols == [i \in 1..Len(params.GroupBy) |->
                       formatDateColumn(params.GroupBy[i], params.DateFormat)]
      sel == IF Len(selectCols) > 0 THEN JoinTexts(selectCols, ", ") \o <<", ">>
             ELSE <<>>
      r == AggLoop([clauses |-> <<>>, args |-> <<>>], params.Filters, ord)
      whr == IF Cardinality(DOMAIN params.Filters) > 0
             THEN <<" WHERE ">> \o (IF Len(r.clauses) > 0
                                    THEN JoinTexts(r.clauses, " AND ")
                                    ELSE <<"1=1">>)
             ELSE <<>>
      grp == IF Len(params.GroupBy) > 0
             THEN <<" GROUP BY ">>
                    \o Join([i \in 1..Len(params.GroupBy) |-> ToString(i)], ", ")
             ELSE <<>>
      ord2 == IF params.OrderBy # ""
              THEN <<" ORDER BY ">> \o Quote(params.OrderBy)
                     \o (IF params.OrderDir # "" /\ ToLower(params.OrderDir) = "asc"
                         THEN <<" ASC">> ELSE <<" DESC">>)
              ELSE <<" ORDER BY total DESC">>
      lim == IF params.Limit > 0 THEN <<" LIMIT ", ToString(params.Limit)>> ELSE <<>>
  IN [query |-> <<"SELECT ">> \o sel
                  \o buildAggregationFunction(params.Agg, params.VarAgg)
                  \o <<" as total", " FROM data">> \o whr \o grp \o ord2 \o lim,
      args |-> r.args]

buildAggregationQuery(params, ord) ==
  LET selectCols == [i \in 1..Len(params.GroupBy) |->
                       formatDateColumn(params.GroupBy[i], params.DateFormat)]
      sel == IF Len(selectCols) > 0 THEN JoinTexts(selectCols, ", ") \o <<", ">>
             ELSE <<>>
      r == AggLoop([clauses |-> <<>>, args |-> <<>>], params.Filters, ord)
      whr == IF Cardinality(DOMAIN params.Filters) > 0
             THEN <<" WHERE ">> \o (IF Len(r.clauses) > 0
                                    THEN JoinTexts(r.clauses, " AND ")
                                    ELSE <<"1=1">>)
             ELSE <<>>
      grp == IF Len(params.GroupBy) > 0
             THEN <<" GROUP BY ">>
                    \o Join([i \in 1..Len(params.GroupBy) |-> ToString(i)], ", ")
             ELSE <<>>
      ord2 == IF params.OrderBy # ""
              THEN <<" ORDER BY ">> \o Quote(params.OrderBy)
                     \o (IF params.OrderDir # "" /\ ToLower(params.OrderDir) = "asc"
                         THEN <<" ASC">> ELSE <<" DESC">>)
              ELSE IF Len(params.GroupBy) > 0 THEN <<" ORDER BY 1">>
              ELSE <<" ORDER BY total DESC">>
      lim == IF params.Limit > 0 THEN <<" LIMIT ", ToString(params.Limit)>> ELSE <<>>
  IN [query |-> <<"SELECT ">> \o sel
                  \o buildAggregationFunction(params.Agg, params.VarAgg)
                  \o <<" as total", " FROM data">> \o whr \o grp \o ord2 \o lim,
      args |-> r.args]

\* no builder has been called
NoQuery ==
  [fn |-> "", params |-> [Filters |-> <<>>], ord |-> <<>>,
   query |-> <<>>, args |-> <<>>]

(***************************************************************************)
(* Goroutines.  Threads 1..NumReq serve HTTP requests; thread NumReq + o   *)
(* is the goroutine "go dm.downloadInBackground(uuid)" of job object o.    *)
(*   kind "filters": handlers.APIHandler.GetFilters                        *)
(*   kind "query"  : a handler that calls Manager.GetConnection directly   *)
(*                   (GetStats, GetTopValues)                              *)
(*   kind "status" : handlers.APIHandler.GetDownloadStatus                 *)
(*   kind "bg"     : DownloadManager.downloadInBackground                  *)
(***************************************************************************)
Reqs == 1..NumReq
BgOf(o) == NumReq + o
Threads == 1..(NumReq + MaxJobs)

NoCopy == NewJob(0, ZeroTime)

\* the JSON body and the HTTP status that GetDownloadStatus writes
NoResp == [code |-> 0, status |-> "", progress |-> 0, message |-> ""]

IdleTh ==
  [kind |-> "idle", pc |-> "idle", uuid |-> 0, job |-> 0, run |-> 0,
   path |-> NoPath, dl |-> 0, total |-> 0, err |-> "", conn |-> 0,
   inMem |-> FALSE, res |-> "", diskErr |-> "", copy |-> NoCopy,
   reg |-> FALSE, resp |-> NoResp]

\* a goroutine that returned: the slot of a request is free again, the
\* goroutine of a job is over (reg keeps whether its call of SetToMemory
\* returned)
Done(r, res, err) ==
  IF r.kind = "bg" THEN [IdleTh EXCEPT !.kind = "bg", !.pc = "done",
                                       !.reg = r.reg]
  ELSE IdleTh

\* the path where a pipeline run creates the converted store:
\* downloadAndConvertWithProgress in the cache directory, downloadAndConvert
\* in the temporary directory
DbPathOf(r) == IF r.kind = "bg" THEN CachePath(r.uuid) ELSE TmpPath(r.uuid)

RunsOf(uuid) == runs[uuid].sync + runs[uuid].async

RECURSIVE SumRuns(_)
SumRuns(S) ==
  IF S = {} THEN 0
  ELSE LET u == CHOOSE x \in S : TRUE IN RunsOf(u) + SumRuns(S \ {u})

TotalRuns == SumRuns(Ids)

\* runs that are started or about to be: a job was registered and its creator
\* stands before "go dm.downloadInBackground(uuid)"
RunsClaimed == TotalRuns + Cardinality({t \in Reqs : th[t].pc = "sd_go"})

\* a pipeline run holds its database file open for writing
LiveWriter(path) ==
  \E t \in Threads :
    /\ th[t].pc \in {"p_load", "p_index"}
    /\ DbPathOf(th[t]) = path
    /\ fs[path].run = th[t].run

OpenHandleOn(path) ==
  \E i \in 1..Len(handles) : handles[i].path = path /\ ~handles[i].closed

\* line 127 of downloadInBackground reads dm.jobs[uuid] without dm.mu
InUnlockedMapRead == \E t \in Threads : th[t].pc = "bg_duration"

\* a write of the map dm.jobs while another goroutine reads it without the
\* lock: the Go runtime may stop the process ("concurrent map read and map
\* write") or the access may go unnoticed
MapWriteOutcomes == IF InUnlockedMapRead THEN {FALSE, TRUE} ELSE {FALSE}

ProcInit ==
  /\ jobs = [u \in Ids |-> 0]
  /\ heap = <<>>
  /\ removed = {}
  /\ th = [t \in Threads |-> IdleTh]
  /\ runs = [u \in Ids |-> [sync |-> 0, async |-> 0]]
  /\ fs = [p \in Paths |-> NoFile]
  /\ pool = [u \in Ids |-> 0]
  /\ handles = <<>>
  /\ now = 1
  /\ crashed = FALSE

SysInit ==
  /\ ProcInit
  /\ qry = NoQuery

Init ==
  /\ mem = NewLRUCache(MemorySize)
  /\ recent = <<>>
  /\ fill = 0
  /\ SysInit

(***************************************************************************)
(* Requests                                                                *)
(***************************************************************************)
FirstPc(kind) ==
  CASE kind = "filters" -> "gf_mem"
    [] kind = "query" -> "gc_pool"
    [] kind = "status" -> "st_getjob"

\* a request of one of the kinds for one of the uuids arrives and is served
\* by the first free slot (the slots are interchangeable)
Arrive(t, kinds, uuids) ==
  /\ ~crashed
  /\ t \in Reqs
  /\ th[t].pc = "idle"
  /\ \A s \in Reqs : s < t => th[s].pc # "idle"
  /\ \E kind \in kinds, uuid \in uuids :
       th' = [th EXCEPT ![t] = [IdleTh EXCEPT !.kind = kind, !.uuid = uuid,
                                              !.pc = FirstPc(kind)]]
  /\ UNCHANGED <<qry, recent, fill, mem, jobs, heap, removed, runs, fs, pool, handles, now, crashed>>

\* requests on both acquisition paths
Begin(t) == Arrive(t, {"filters", "query"}, Ids)

\* requests to the job tracker: GetFilters and GetDownloadStatus
BeginJob(t) == Arrive(t, {"filters", "status"}, Ids)

\* GetFilters: _, inMemory := h.cacheManager.GetFromMemory(uuid)
GfMem(t) ==
  /\ ~crashed
  /\ th[t].pc = "gf_mem"
  /\ LET r == LRUGet(mem, th[t].uuid) IN
     /\ mem' = r.cache
     /\ th' = [th EXCEPT ![t].inMem = r.ok, ![t].pc = "gf_disk"]
  /\ UNCHANGED <<qry, recent, fill, jobs, heap, removed, runs, fs, pool, handles, now, crashed>>

\* GetFilters: _, onDisk := h.cacheManager.GetFromDisk(uuid), and the branch
GfDisk(t) ==
  /\ ~crashed
  /\ th[t].pc = "gf_disk"
  /\ LET onDisk == DiskGet(fs, th[t].uuid).ok IN
     th' = [th EXCEPT ![t].pc = IF ~th[t].inMem /\ ~onDisk THEN "sd_lock"
                                ELSE "gc_pool"]
  /\ UNCHANGED <<qry, recent, fill, mem, jobs, heap, removed, runs, fs, pool, handles, now, crashed>>

\* StartDownload, from dm.mu.Lock() to dm.mu.Unlock(); res notes what the
\* lookup found
SdLock(t) ==
  /\ ~crashed
  /\ th[t].pc = "sd_lock"
  /\ LET r == StartDownload(jobs, heap, th[t].uuid, now) IN
     /\ r.created => Len(heap) < MaxJobs /\ RunsClaimed < MaxRuns
     /\ jobs' = r.jobs
     /\ heap' = r.heap
     /\ th' = [th EXCEPT ![t].job = r.job,
                         ![t].res = IF r.created THEN "created"
                                    ELSE heap[r.job].Status,
                         ![t].pc = IF r.created THEN "sd_go" ELSE "gf_resp"]
     /\ crashed' \in (IF r.created THEN MapWriteOutcomes ELSE {FALSE})
  /\ UNCHANGED <<qry, recent, fill, mem, removed, runs, fs, pool, handles, now>>

\* StartDownload: go dm.downloadInBackground(uuid)
SdGo(t) ==
  /\ ~crashed
  /\ th[t].pc = "sd_go"
  /\ runs' = [runs EXCEPT ![th[t].uuid].async = @ + 1]
  /\ th' = [th EXCEPT ![t].pc = "gf_resp",
                      ![BgOf(th[t].job)] =
                         [IdleTh EXCEPT !.kind = "bg", !.pc = "bg_start",
                                        !.uuid = th[t].uuid,
                                        !.job = th[t].job,
                                        !.run = RunsOf(th[t].uuid) + 1]]
  /\ UNCHANGED <<qry, recent, fill, mem, jobs, heap, removed, fs, pool, handles, now, crashed>>

\* GetFilters: the 202 response built from job.Status, job.Progress and
\* job.Message of the pointer that StartDownload returned
GfResp(t) ==
  /\ ~crashed
  /\ th[t].pc = "gf_resp"
  /\ th' = [th EXCEPT ![t] = Done([@ EXCEPT !.copy = heap[th[t].job]],
                                  "accepted", "")]
  /\ UNCHANGED <<qry, recent, fill, mem, jobs, heap, removed, runs, fs, pool, handles, now, crashed>>

\* GetDownloadStatus: job, exists := dm.GetJob(uuid).  The handler holds the
\* returned object: copy is its content, job the registered object it is
\* shared with (none)
StGetJob(t) ==
  /\ ~crashed
  /\ th[t].pc = "st_getjob"
  /\ LET r == GetJob(jobs, heap, th[t].uuid) IN
     th' = [th EXCEPT ![t] = IF r.exists
                             THEN [@ EXCEPT !.copy = r.job, !.job = r.ref,
                                            !.pc = "st_build"]
                             ELSE [@ EXCEPT !.pc = "st_mem"]]
  /\ UNCHANGED <<qry, recent, fill, mem, jobs, heap, removed, runs, fs, pool, handles, now, crashed>>

\* what a read through the pointer that GetJob returned finds
Seen(r) == IF r.job # 0 THEN heap[r.job] ELSE r.copy

\* GetDownloadStatus builds the response from the fields of job
StBuild(t) ==
  /\ ~crashed
  /\ th[t].pc = "st_build"
  /\ th' = [th EXCEPT ![t].resp = [code |-> 200,
                                   status |-> Seen(th[t]).Status,
                                   progress |-> Seen(th[t]).Progress,
                                   message |-> Seen(th[t]).Message],
                      ![t].copy = NoCopy,
                      ![t].job = 0,
                      ![t].pc = "st_sent"]
  /\ UNCHANGED <<qry, recent, fill, mem, jobs, heap, removed, runs, fs, pool, handles, now, crashed>>

\* json.NewEncoder(w).Encode(response), and the handler returns
StSent(t) ==
  /\ ~crashed
  /\ th[t].pc = "st_sent"
  /\ th' = [th EXCEPT ![t] = Done(@, th[t].resp.status, "")]
  /\ UNCHANGED <<qry, recent, fill, mem, jobs, heap, removed, runs, fs, pool, handles, now, crashed>>

StMem(t) ==
  /\ ~crashed
  /\ th[t].pc = "st_mem"
  /\ LET r == LRUGet(mem, th[t].uuid) IN
     /\ mem' = r.cache
     /\ th' = [th EXCEPT ![t].inMem = r.ok, ![t].pc = "st_disk"]
  /\ UNCHANGED <<qry, recent, fill, jobs, heap, removed, runs, fs, pool, handles, now, crashed>>

RespCached ==
  [code |-> 200, status |-> "ready", progress |-> 100,
   message |-> "Dataset listo para consultar"]

RespNotFound ==
  [code |-> 404, status |-> "not_found", progress |-> 0,
   message |-> "Dataset no encontrado. Llama a /api/filters/:uuid primero."]

\* GetDownloadStatus that answers "ready" only for a dataset in both tiers
StDisk_Both(t) ==
  /\ ~crashed
  /\ th[t].pc = "st_disk"
  /\ LET onDisk == DiskGet(fs, th[t].uuid).ok IN
     th' = [th EXCEPT ![t].resp = IF th[t].inMem /\ onDisk THEN RespCached
                                  ELSE RespNotFound,
                      ![t].pc = "st_sent"]
  /\ UNCHANGED <<qry, recent, fill, mem, jobs, heap, removed, runs, fs, pool, handles, now, crashed>>

\* _, onDisk := h.cacheManager.GetFromDisk(uuid), and the two answers for an
\* id without a job
StDisk(t) ==
  /\ ~crashed
  /\ th[t].pc = "st_disk"
  /\ LET onDisk == DiskGet(fs, th[t].uuid).ok IN
     th' = [th EXCEPT ![t].resp = IF th[t].inMem \/ onDisk THEN RespCached
                                  ELSE RespNotFound,
                      ![t].pc = "st_sent"]
  /\ UNCHANGED <<qry, recent, fill, mem, jobs, heap, removed, runs, fs, pool, handles, now, crashed>>

(***************************************************************************)
(* The pipeline: Manager.downloadAndConvertWithProgress (asynchronous      *)
(* path, with the progress callback) and Manager.downloadAndConvert        *)
(* (synchronous path).  The catalog, the HTTP server and the engine are    *)
(* collaborators: each call succeeds or fails.                             *)
(***************************************************************************)
ErrResource == "error obteniendo recurso de CKAN"
ErrDownload == "error descargando CSV"
ErrLoad == "error cargando CSV en DuckDB"
ErrPing == "error ping DuckDB"

\* the pipeline returns err: downloadInBackground goes to its error branch,
\* GetConnection returns the error
PipeFail(r, err) ==
  IF r.kind = "bg" THEN [r EXCEPT !.pc = "bg_fail", !.err = err]
  ELSE Done(r, "err", err)

\* 1.-3. m.ckanClient.GetResource(ctx, uuid), then client.Do(req) and the
\* status check: two calls of collaborators that touch no state of the
\* program, taken as one step.  resp.ContentLength is the total, -1 when the
\* server does not announce it.  downloadFile (synchronous path) reports no
\* progress: its copy loop belongs to the same step
\* the announced size, in chunks: one for which 80 * downloaded / total has
\* no fractional part
TotalSizes == {n \in {MaxChunk} : 80 % n = 0}

\* the chunks a body can deliver: resp.Body ends at ContentLength
BodyChunks(total) == IF total > 0 THEN total ELSE MaxBlind

FetchOutcomes(r) ==
  {[ok |-> FALSE, err |-> ErrResource, total |-> 0],
   [ok |-> FALSE, err |-> ErrDownload, total |-> 0]}
  \cup {[ok |-> TRUE, err |-> "", total |-> n] :
          n \in IF r.kind = "bg" THEN {-1} \cup TotalSizes ELSE {0}}

PDownload(t) ==
  /\ ~crashed
  /\ th[t].pc = "p_download"
  /\ \E o \in FetchOutcomes(th[t]) :
       th' = [th EXCEPT ![t] =
                IF ~o.ok THEN PipeFail(@, o.err)
                ELSE IF @.kind = "bg"
                     THEN [@ EXCEPT !.pc = "p_body", !.total = o.total, !.dl = 0]
                     ELSE [@ EXCEPT !.pc = "p_create"]]
  /\ UNCHANGED <<qry, recent, fill, mem, jobs, heap, removed, runs, fs, pool, handles, now, crashed>>

\* downloadFileWithProgress: one pass of the read loop
PBody(t) ==
  /\ ~crashed
  /\ th[t].pc = "p_body"
  /\ \/ \* a chunk was read and written: progressCallback(written, totalSize)
        /\ th[t].dl < BodyChunks(th[t].total)
        /\ th' = [th EXCEPT ![t].dl = @ + 1]
        /\ heap' = updateJob(jobs, heap, th[t].uuid,
                     UpdProgress(Registered(jobs, heap, th[t].uuid),
                                 th[t].dl + 1, th[t].total))
     \/ \* io.EOF
        /\ th[t].total > 0 => th[t].dl = th[t].total
        /\ th' = [th EXCEPT ![t].pc = "p_create"]
        /\ UNCHANGED heap
     \/ \* read or write error
        /\ th' = [th EXCEPT ![t] = PipeFail(@, ErrDownload)]
        /\ UNCHANGED heap
  /\ UNCHANGED <<qry, recent, fill, mem, jobs, removed, runs, fs, pool, handles, now, crashed>>

\* 4./5. sql.Open is lazy: the first ExecContext opens the database file at
\* dbPath read-write, creating it when it does not exist.  The engine refuses
\* a file that another instance holds open, and CREATE TABLE data fails on a
\* file that already has the table
CanCreate(path) ==
  /\ ~LiveWriter(path)
  /\ ~OpenHandleOn(path)
  /\ fs[path].st \in {"absent", "open"}

PCreate(t) ==
  /\ ~crashed
  /\ th[t].pc = "p_create"
  /\ \/ /\ CanCreate(DbPathOf(th[t]))
        /\ fs' = [fs EXCEPT ![DbPathOf(th[t])] = [run |-> th[t].run, st |-> "open"]]
        /\ th' = [th EXCEPT ![t].pc = "p_load"]
     \/ /\ th' = [th EXCEPT ![t] = PipeFail(@, ErrLoad)]
        /\ UNCHANGED fs
  /\ UNCHANGED <<qry, recent, fill, mem, jobs, heap, removed, runs, pool, handles, now, crashed>>

\* 5. CREATE TABLE data AS SELECT * FROM read_csv_auto(...) returns
PLoad(t) ==
  /\ ~crashed
  /\ th[t].pc = "p_load"
  /\ \/ /\ fs' = [fs EXCEPT ![DbPathOf(th[t])].st = "table"]
        /\ th' = [th EXCEPT ![t].pc = "p_index"]
     \/ /\ th' = [th EXCEPT ![t] = PipeFail(@, ErrLoad)]
        /\ UNCHANGED fs
  /\ UNCHANGED <<qry, recent, fill, mem, jobs, heap, removed, runs, pool, handles, now, crashed>>

\* 6.-8. row count, createIndexes and CHECKPOINT: their errors are logged;
\* the pipeline returns dbPath
PIndex(t) ==
  /\ ~crashed
  /\ th[t].pc = "p_index"
  /\ fs' = [fs EXCEPT ![DbPathOf(th[t])].st = "final"]
  /\ th' = [th EXCEPT ![t].path = DbPathOf(th[t]),
                      ![t].pc = IF th[t].kind = "bg" THEN "bg_processing"
                                ELSE "gc_setdisk"]
  /\ UNCHANGED <<qry, recent, fill, mem, jobs, heap, removed, runs, pool, handles, now, crashed>>

(***************************************************************************)
(* DownloadManager.downloadInBackground                                    *)
(***************************************************************************)
BgStart(t) ==
  /\ ~crashed
  /\ th[t].pc = "bg_start"
  /\ heap' = updateJob(jobs, heap, th[t].uuid,
                       UpdDownloading(Registered(jobs, heap, th[t].uuid)))
  /\ th' = [th EXCEPT ![t].pc = "p_download"]
  /\ UNCHANGED <<qry, recent, fill, mem, jobs, removed, runs, fs, pool, handles, now, crashed>>

\* the error branch of downloadInBackground without its return
BgFail_NoReturn(t) ==
  /\ ~crashed
  /\ th[t].pc = "bg_fail"
  /\ heap' = updateJob(jobs, heap, th[t].uuid,
                       UpdFailed(Registered(jobs, heap, th[t].uuid),
                                 th[t].err, now))
  /\ th' = [th EXCEPT ![t].pc = "bg_processing"]
  /\ UNCHANGED <<qry, recent, fill, mem, jobs, removed, runs, fs, pool, handles, now, crashed>>

BgFail(t) ==
  /\ ~crashed
  /\ th[t].pc = "bg_fail"
  /\ heap' = updateJob(jobs, heap, th[t].uuid,
                       UpdFailed(Registered(jobs, heap, th[t].uuid),
                                 th[t].err, now))
  /\ th' = [th EXCEPT ![t] = Done(@, "failed", th[t].err)]
  /\ UNCHANGED <<qry, recent, fill, mem, jobs, removed, runs, fs, pool, handles, now, crashed>>

BgProcessing(t) ==
  /\ ~crashed
  /\ th[t].pc = "bg_processing"
  /\ heap' = updateJob(jobs, heap, th[t].uuid,
                       UpdProcessing(Registered(jobs, heap, th[t].uuid)))
  /\ th' = [th EXCEPT ![t].pc = "bg_setmem"]
  /\ UNCHANGED <<qry, recent, fill, mem, jobs, removed, runs, fs, pool, handles, now, crashed>>

\* downloadInBackground that goes on to Ready without the call of SetToMemory
BgSetMem_Skip(t) ==
  /\ ~crashed
  /\ th[t].pc = "bg_setmem"
  /\ th' = [th EXCEPT ![t].pc = "bg_ready"]
  /\ UNCHANGED <<qry, recent, fill, mem, jobs, heap, removed, runs, fs, pool, handles, now, crashed>>

BgSetMem(t) ==
  /\ ~crashed
  /\ th[t].pc = "bg_setmem"
  /\ mem' = SetToMemory(mem, fs, th[t].uuid, th[t].path)
  /\ th' = [th EXCEPT ![t].pc = "bg_ready", ![t].reg = TRUE]
  /\ UNCHANGED <<qry, recent, fill, jobs, heap, removed, runs, fs, pool, handles, now, crashed>>

BgReady(t) ==
  /\ ~crashed
  /\ th[t].pc = "bg_ready"
  /\ heap' = updateJob(jobs, heap, th[t].uuid,
                       UpdReady(Registered(jobs, heap, th[t].uuid), now))
  /\ th' = [th EXCEPT ![t].pc = "bg_duration"]
  /\ UNCHANGED <<qry, recent, fill, mem, jobs, removed, runs, fs, pool, handles, now, crashed>>

\* the last step of downloadInBackground that also stamps the job again
BgDuration_Stamp(t) ==
  /\ ~crashed
  /\ th[t].pc = "bg_duration"
  /\ heap' = updateJob(jobs, heap, th[t].uuid,
                       UpdReady(Registered(jobs, heap, th[t].uuid), now))
  /\ th' = [th EXCEPT ![t] = Done(@, "ready", "")]
  /\ UNCHANGED <<qry, recent, fill, mem, jobs, removed, runs, fs, pool, handles, now, crashed>>

\* duration := time.Since(dm.jobs[uuid].StartTime): a nil pointer when
\* CleanupOldJobs has deleted the entry
BgDuration(t) ==
  /\ ~crashed
  /\ th[t].pc = "bg_duration"
  /\ IF jobs[th[t].uuid] = 0
     THEN crashed' = TRUE /\ UNCHANGED th
     ELSE th' = [th EXCEPT ![t] = Done(@, "ready", "")] /\ UNCHANGED crashed
  /\ UNCHANGED <<qry, recent, fill, mem, jobs, heap, removed, runs, fs, pool, handles, now>>

(***************************************************************************)
(* Manager.GetConnection and Manager.openConnection                        *)
(***************************************************************************)
GcPool(t) ==
  /\ ~crashed
  /\ th[t].pc = "gc_pool"
  /\ th' = [th EXCEPT ![t] = IF pool[th[t].uuid] # 0
                             THEN Done([@ EXCEPT !.conn = pool[th[t].uuid]],
                                       "ok", "")
                             ELSE [@ EXCEPT !.pc = "gc_mem"]]
  /\ UNCHANGED <<qry, recent, fill, mem, jobs, heap, removed, runs, fs, pool, handles, now, crashed>>

\* GetConnection that goes to the disk store without asking the memory index
GcMem_Skip(t) ==
  /\ ~crashed
  /\ th[t].pc = "gc_mem"
  /\ th' = [th EXCEPT ![t].pc = "gc_disk"]
  /\ UNCHANGED <<qry, recent, fill, mem, jobs, heap, removed, runs, fs, pool, handles, now, crashed>>

GcMem(t) ==
  /\ ~crashed
  /\ th[t].pc = "gc_mem"
  /\ LET r == LRUGet(mem, th[t].uuid) IN
     /\ mem' = r.cache
     /\ th' = [th EXCEPT ![t] = IF r.ok
                                THEN [@ EXCEPT !.path = r.value, !.pc = "oc_open"]
                                ELSE [@ EXCEPT !.pc = "gc_disk"]]
  /\ UNCHANGED <<qry, recent, fill, jobs, heap, removed, runs, fs, pool, handles, now, crashed>>

\* GetFromDisk; on a miss the call of downloadAndConvert starts a pipeline run
GcDisk(t) ==
  /\ ~crashed
  /\ th[t].pc = "gc_disk"
  /\ LET r == DiskGet(fs, th[t].uuid) IN
     IF r.ok
     THEN /\ th' = [th EXCEPT ![t].path = r.path, ![t].pc = "gc_promote"]
          /\ UNCHANGED runs
     ELSE /\ RunsClaimed < MaxRuns
          /\ runs' = [runs EXCEPT ![th[t].uuid].sync = @ + 1]
          /\ th' = [th EXCEPT ![t].run = RunsOf(th[t].uuid) + 1,
                              ![t].pc = "p_download"]
  /\ UNCHANGED <<qry, recent, fill, mem, jobs, heap, removed, fs, pool, handles, now, crashed>>

GcPromote(t) ==
  /\ ~crashed
  /\ th[t].pc = "gc_promote"
  /\ mem' = SetToMemory(mem, fs, th[t].uuid, th[t].path)
  /\ th' = [th EXCEPT ![t].pc = "oc_open"]
  /\ UNCHANGED <<qry, recent, fill, jobs, heap, removed, runs, fs, pool, handles, now, crashed>>

\* what SetToDisk can return: the result of DiskCache.Set, or, when it gets
\* as far as os.Rename, the error of a rename that the file system refuses
\* (the temporary directory and the cache directory on different devices,
\* no permission, no space)
ErrRename == "rename: invalid cross-device link"

SetToDiskOutcomes(f, uuid, srcPath) ==
  {DiskSet(f, uuid, srcPath)}
  \cup (IF ~Exists(f, CachePath(uuid)) /\ Exists(f, srcPath)
        THEN {[fs |-> f, err |-> ErrRename]} ELSE {})

\* m.cacheManager.SetToDisk(uuid, dbPath); an error is logged
GcSetDisk(t) ==
  /\ ~crashed
  /\ th[t].pc = "gc_setdisk"
  /\ \E r \in SetToDiskOutcomes(fs, th[t].uuid, th[t].path) :
     /\ fs' = r.fs
     /\ th' = [th EXCEPT ![t].diskErr = r.err, ![t].pc = "gc_setmem"]
  /\ UNCHANGED <<qry, recent, fill, mem, jobs, heap, removed, runs, pool, handles, now, crashed>>

GcSetMem(t) ==
  /\ ~crashed
  /\ th[t].pc = "gc_setmem"
  /\ mem' = SetToMemory(mem, fs, th[t].uuid, th[t].path)
  /\ th' = [th EXCEPT ![t].pc = "oc_open"]
  /\ UNCHANGED <<qry, recent, fill, jobs, heap, removed, runs, fs, pool, handles, now, crashed>>

\* openConnection: sql.Open(dbPath + "?access_mode=read_only") and Ping.
\* Ping fails when the file does not exist or is held open for writing
CanPing(path) == Exists(fs, path) /\ ~LiveWriter(path)

\* openConnection that returns the error of Ping without conn.Close()
OcOpen_NoClose(t) ==
  /\ ~crashed
  /\ th[t].pc = "oc_open"
  /\ Len(handles) < MaxHandles
  /\ handles' = Append(handles, [uuid |-> th[t].uuid, path |-> th[t].path,
                                 closed |-> FALSE])
  /\ \/ /\ CanPing(th[t].path)
        /\ th' = [th EXCEPT ![t].conn = Len(handles) + 1, ![t].pc = "oc_store"]
     \/ th' = [th EXCEPT ![t].conn = 0, ![t].err = ErrPing, ![t].pc = "oc_failed"]
  /\ UNCHANGED <<qry, recent, fill, mem, jobs, heap, removed, runs, fs, pool, now, crashed>>

OcOpen(t) ==
  /\ ~crashed
  /\ th[t].pc = "oc_open"
  /\ \/ /\ CanPing(th[t].path)
        /\ Len(handles) < MaxHandles
        /\ handles' = Append(handles, [uuid |-> th[t].uuid, path |-> th[t].path,
                                       closed |-> FALSE])
        /\ th' = [th EXCEPT ![t].conn = Len(handles) + 1, ![t].pc = "oc_store"]
     \/ \* Ping fails: conn.Close(); the handle of the attempt is closed and
        \* never enters handles, which holds the handles that passed Ping
        /\ th' = [th EXCEPT ![t].conn = 0, ![t].err = ErrPing,
                            ![t].pc = "oc_failed"]
        /\ UNCHANGED handles
  /\ UNCHANGED <<qry, recent, fill, mem, jobs, heap, removed, runs, fs, pool, now, crashed>>

\* openConnection after a failed Ping: return nil, fmt.Errorf("error ping
\* DuckDB: %w", err), which GetConnection returns to its caller
OcFailed(t) ==
  /\ ~crashed
  /\ th[t].pc = "oc_failed"
  /\ th' = [th EXCEPT ![t] = Done(@, "err", th[t].err)]
  /\ UNCHANGED <<qry, recent, fill, mem, jobs, heap, removed, runs, fs, pool, handles, now, crashed>>

\* openConnection: m.connections.Store(uuid, conn)
OcStore(t) ==
  /\ ~crashed
  /\ th[t].pc = "oc_store"
  /\ pool' = [pool EXCEPT ![th[t].uuid] = th[t].conn]
  /\ th' = [th EXCEPT ![t] = Done(@, "ok", "")]
  /\ UNCHANGED <<qry, recent, fill, mem, jobs, heap, removed, runs, fs, handles, now, crashed>>

(***************************************************************************)
(* Environment: the clock, and a call of DownloadManager.CleanupOldJobs    *)
(***************************************************************************)
\* the clock is read for StartTime, for EndTime and by CleanupOldJobs, which
\* compares it with the end times of the registered jobs: it advances while
\* there is such an end time
Tick ==
  /\ ~crashed
  /\ now < MaxTime
  /\ \E u \in Ids : jobs[u] # 0 /\ heap[jobs[u]].EndTime # ZeroTime
  /\ now' = now + 1
  /\ UNCHANGED <<qry, recent, fill, mem, jobs, heap, removed, th, runs, fs, pool, handles, crashed>>

Cleanup ==
  /\ ~crashed
  /\ jobs' = CleanupOldJobs(jobs, heap, now)
  /\ removed' = removed \cup {jobs[u] : u \in CleanupSet(jobs, heap, now)}
  /\ crashed' \in (IF CleanupSet(jobs, heap, now) # {} THEN MapWriteOutcomes
                   ELSE {FALSE})
  /\ UNCHANGED <<qry, recent, fill, mem, heap, th, runs, fs, pool, handles, now>>

Common(t) ==
  \/ GfMem(t) \/ GfDisk(t) \/ SdLock(t) \/ SdGo(t) \/ GfResp(t)
  \/ PDownload(t) \/ PBody(t) \/ PCreate(t) \/ PLoad(t) \/ PIndex(t)
  \/ BgStart(t) \/ BgFail(t) \/ BgProcessing(t) \/ BgSetMem(t) \/ BgReady(t)
  \/ BgDuration(t)
  \/ GcPool(t) \/ GcMem(t) \/ GcDisk(t) \/ GcPromote(t)
  \/ OcOpen(t) \/ OcStore(t) \/ OcFailed(t)

\* both acquisition paths: GetFilters and the handlers that query
Next ==
  \/ \E t \in Threads : Begin(t) \/ Common(t) \/ GcSetDisk(t) \/ GcSetMem(t)
  \/ Tick
  \/ Cleanup

Spec == Init /\ [][Next]_vars

\* the job tracker: every dataset is requested through GetFilters and
\* GetDownloadStatus only
NextJobs ==
  \/ \E t \in Threads :
       \/ BeginJob(t) \/ Common(t)
       \/ StGetJob(t) \/ StBuild(t) \/ StMem(t) \/ StDisk(t) \/ StSent(t)
  \/ Tick
  \/ Cleanup

SpecJobs == Init /\ [][NextJobs]_vars

(***************************************************************************)
(* A caller of GetJob that writes to the object it was handed, as the      *)
(* exported pointer result allows: job.Message = CallerMessage             *)
(***************************************************************************)
CallerMessage == "changed by the caller"

CallerWrite(t) ==
  /\ ~crashed
  /\ th[t].pc = "st_build"
  /\ Seen(th[t]).Message # CallerMessage
  /\ IF th[t].job # 0
     THEN /\ heap' = [heap EXCEPT ![th[t].job].Message = CallerMessage]
          /\ UNCHANGED th
     ELSE /\ th' = [th EXCEPT ![t].copy.Message = CallerMessage]
          /\ UNCHANGED heap
  /\ UNCHANGED <<qry, recent, fill, mem, jobs, removed, runs, fs, pool, handles, now, crashed>>

\* the job tracker with such callers, within the hour after which
\* CleanupOldJobs deletes
NextCopy ==
  \E t \in Threads :
       \/ BeginJob(t) \/ Common(t)
       \/ StGetJob(t) \/ StBuild(t) \/ StMem(t) \/ StDisk(t) \/ StSent(t)
       \/ CallerWrite(t)

SpecCopy == Init /\ [][NextCopy]_vars

(***************************************************************************)
(* The tiers under memory pressure.  OtherKey is a dataset that the        *)
(* requests of the model do not ask for: a resolution of it registers a    *)
(* store as large as the byte budget in the memory index                   *)
(* (SetToMemory -> LRUCache.Set), which evicts older entries.              *)
(***************************************************************************)
OtherKey == NumIds + 1

MemOther ==
  /\ ~crashed
  /\ mem' = LRUSet(mem, OtherKey, CachePath(OtherKey), mem.maxSize)
  /\ UNCHANGED <<qry, recent, fill, jobs, heap, removed, th, runs, fs, pool, handles, now, crashed>>

\* both acquisition paths and evictions, without the job cleanup
NextCache ==
  \/ \E t \in Threads : Begin(t) \/ Common(t) \/ GcSetDisk(t) \/ GcSetMem(t)
  \/ MemOther

SpecCache == Init /\ [][NextCache]_vars

(***************************************************************************)
(* The handle pool alone: requests that query (Manager.GetConnection) and  *)
(* Manager.Close, which closes the handles that m.connections holds and    *)
(* leaves them in the map.                                                 *)
(***************************************************************************)
BeginQuery(t) == Arrive(t, {"query"}, Ids)

Registered_In(p, i) == \E u \in DOMAIN p : p[u] = i

\* Manager.Close: m.connections.Range(... conn.Close() ...)
MgrClose ==
  /\ ~crashed
  /\ handles' = [i \in DOMAIN handles |->
                   IF Registered_In(pool, i)
                   THEN [handles[i] EXCEPT !.closed = TRUE]
                   ELSE handles[i]]
  /\ UNCHANGED <<qry, recent, fill, mem, jobs, heap, removed, th, runs, fs, pool, now, crashed>>

NextPool ==
  \/ \E t \in Threads :
       \/ BeginQuery(t)
       \/ GcPool(t) \/ GcMem(t) \/ GcDisk(t) \/ GcPromote(t)
       \/ PDownload(t) \/ PCreate(t) \/ PLoad(t) \/ PIndex(t)
       \/ GcSetDisk(t) \/ GcSetMem(t)
       \/ OcOpen(t) \/ OcStore(t) \/ OcFailed(t)
  \/ MgrClose

SpecPool == Init /\ [][NextPool]_vars

(***************************************************************************)
(* Harness for the memory index alone: any sequence of Get and Set on the  *)
(* keys 1..NumLKeys, plus filler keys that are inserted once each, in      *)
(* order, with size 0 (the size SetToMemory uses when os.Stat fails).      *)
(* As in SetToMemory, the size of an entry is the size of the file at its  *)
(* path: 0 for a path in the temporary directory that was moved away.      *)
(***************************************************************************)
LKeys == 1..NumLKeys
FillBase == 100
NumFill == LRUCapacity

Touch(r, key) == <<key>> \o SelectSeq(r, LAMBDA k : k # key)

LInit == Init

LSet ==
  \E key \in LKeys, size \in 0..MaxEntrySize :
    /\ mem' = LRUSet(mem, key,
                     IF size = 0 THEN TmpPath(key) ELSE CachePath(key), size)
    /\ recent' = Touch(recent, key)
    /\ UNCHANGED <<fill, sysVars>>

LFill ==
  /\ fill < NumFill
  /\ mem' = LRUSet(mem, FillBase + fill + 1, CachePath(FillBase + fill + 1), 0)
  /\ recent' = Touch(recent, FillBase + fill + 1)
  /\ fill' = fill + 1
  /\ UNCHANGED sysVars

LGet ==
  \E key \in LKeys :
    LET r == LRUGet(mem, key) IN
    /\ mem' = r.cache
    /\ recent' = IF r.ok THEN Touch(recent, key) ELSE recent
    /\ UNCHANGED <<fill, sysVars>>

LNext == LSet \/ LFill \/ LGet

SpecLRU == LInit /\ [][LNext]_vars

(***************************************************************************)
(* The memory index with every operation, for every byte budget, and with  *)
(* the eviction loop of Set taken one pass at a time.  qry holds the       *)
(* operation in progress: c.mu is held from MSet to MReturn, so no other   *)
(* operation runs while pc is "loop".                                      *)
(***************************************************************************)
MIdle == [fn |-> "", pc |-> "idle", key |-> 0, size |-> 0, hit |-> FALSE, evicted |-> 0]

MInit ==
  /\ \E maxSize \in 0..MemorySize : mem = NewLRUCache(maxSize)
  /\ recent = <<>>
  /\ fill = 0
  /\ ProcInit
  /\ qry = MIdle

MGet ==
  \E key \in LKeys :
    /\ qry.pc = "idle"
    /\ mem' = LRUGet(mem, key).cache
    /\ qry' = [MIdle EXCEPT !.fn = "Get", !.key = key, !.hit = LRUGet(mem, key).ok]
    /\ UNCHANGED <<recent, fill, jobs, heap, removed, th, runs, fs, pool, handles, now, crashed>>

\* Set from c.mu.Lock() to the first test of the loop condition
MSet ==
  \E key \in LKeys, size \in 0..MaxEntrySize :
    /\ qry.pc = "idle"
    /\ LET r == SetEnter(mem, key, CachePath(key), size) IN
       /\ mem' = r.cache
       /\ qry' = [MIdle EXCEPT !.fn = "Set", !.key = key, !.size = size,
                               !.hit = ~r.loop,
                               !.pc = IF r.loop THEN "loop" ELSE "idle"]
    /\ UNCHANGED <<recent, fill, jobs, heap, removed, th, runs, fs, pool, handles, now, crashed>>

\* Set of one more dataset of size 0, which fills the list up to capacity
MFill ==
  /\ qry.pc = "idle"
  /\ fill < NumFill
  /\ mem' = SetEnter(mem, FillBase + fill + 1, CachePath(FillBase + fill + 1), 0).cache
  /\ qry' = [MIdle EXCEPT !.fn = "Set", !.key = FillBase + fill + 1, !.pc = "loop"]
  /\ fill' = fill + 1
  /\ UNCHANGED <<recent, jobs, heap, removed, th, runs, fs, pool, handles, now, crashed>>

\* one pass of the loop: the condition holds, c.evictOldest()
MEvict ==
  /\ qry.pc = "loop"
  /\ OverBounds(mem)
  /\ mem' = evictOldest(mem)
  /\ qry' = [qry EXCEPT !.evicted = IF @ < LRUCapacity THEN @ + 1 ELSE @]
  /\ UNCHANGED <<recent, fill, jobs, heap, removed, th, runs, fs, pool, handles, now, crashed>>

\* the condition of the loop fails: Set returns and c.mu is released
MReturn ==
  /\ qry.pc = "loop"
  /\ ~OverBounds(mem)
  /\ qry' = [qry EXCEPT !.pc = "idle"]
  /\ UNCHANGED <<mem, recent, fill, jobs, heap, removed, th, runs, fs, pool, handles, now, crashed>>

MRemove ==
  \E key \in LKeys :
    /\ qry.pc = "idle"
    /\ mem' = LRURemove(mem, key)
    /\ qry' = [MIdle EXCEPT !.fn = "Remove", !.key = key, !.hit = key \in mem.items]
    /\ UNCHANGED <<recent, fill, jobs, heap, removed, th, runs, fs, pool, handles, now, crashed>>

MClear ==
  /\ qry.pc = "idle"
  /\ mem' = LRUClear(mem)
  /\ qry' = [MIdle EXCEPT !.fn = "Clear"]
  /\ UNCHANGED <<recent, fill, jobs, heap, removed, th, runs, fs, pool, handles, now, crashed>>

MNext == MGet \/ MSet \/ MFill \/ MEvict \/ MReturn \/ MRemove \/ MClear

SpecMem == MInit /\ [][MNext]_vars

\* a goroutine that runs Set is scheduled until it returns
SpecMemLive == SpecMem /\ WF_vars(MEvict) /\ WF_vars(MReturn)

(***************************************************************************)
(* Calls of the query builders.  The filter map is there from the start;   *)
(* a call takes the other parameters of its kind and one of the orders in  *)
(* which range can visit the map.                                          *)
(***************************************************************************)
GroupBys ==
  {g \in SeqsUpTo(Cols, NumCols) : \A i, j \in DOMAIN g : i # j => g[i] # g[j]}

QInit ==
  /\ mem = NewLRUCache(MemorySize)
  /\ recent = <<>>
  /\ fill = 0
  /\ ProcInit
  /\ \E f \in FilterMaps : qry = [NoQuery EXCEPT !.params = [Filters |-> f]]

\* query, args := m.buildFilterQuery(params)
BuildFilter ==
  /\ qry.fn = ""
  /\ \E limit \in 0..MaxLimit, offset \in 0..MaxLimit,
        ord \in RangeOrders(qry.params.Filters) :
       LET params == [Filters |-> qry.params.Filters,
                      Limit |-> limit, Offset |-> offset]
           r == buildFilterQuery(params, ord)
       IN qry' = [fn |-> "buildFilterQuery", params |-> params, ord |-> ord,
                  query |-> r.query, args |-> r.args]
  /\ UNCHANGED <<mem, recent, fill, jobs, heap, removed, th, runs, fs, pool, handles, now, crashed>>

\* query, args := m.buildAggregationQuery(params)
BuildAgg ==
  /\ qry.fn = ""
  /\ \E agg \in {"count", "SUM"}, varAgg \in {"", "c1"}, groupBy \in GroupBys,
        orderBy \in {"", "c1"}, orderDir \in {"", "ASC", "desc"},
        limit \in 0..MaxLimit, dateFormat \in {"", "YEAR"},
        ord \in RangeOrders(qry.params.Filters) :
       LET params == [Filters |-> qry.params.Filters, Agg |-> agg,
                      VarAgg |-> varAgg, GroupBy |-> groupBy,
                      OrderBy |-> orderBy, OrderDir |-> orderDir,
                      Limit |-> limit, DateFormat |-> dateFormat]
           r == buildAggregationQuery(params, ord)
       IN qry' = [fn |-> "buildAggregationQuery", params |-> params, ord |-> ord,
                  query |-> r.query, args |-> r.args]
  /\ UNCHANGED <<mem, recent, fill, jobs, heap, removed, th, runs, fs, pool, handles, now, crashed>>

QNext == BuildFilter \/ BuildAgg

SpecQuery == QInit /\ [][QNext]_vars

(***************************************************************************)
(* The queries of Manager.GetStats and Manager.GetTopValues.  Each builds  *)
(* its own WHERE clause; a value that is not a sentinel is appended to     *)
(* args as it is, a list as one argument.                                  *)
(***************************************************************************)
\* GetStats: one pass of the loop over filters
StatsWhereStep(acc, key, value) ==
  IF IsSentinel(value) THEN acc
  ELSE [query |-> acc.query \o <<" AND ">> \o Quote(key) \o <<" = ?", " ">>,
        args |-> Append(acc.args, value)]

RECURSIVE StatsWhereLoop(_, _, _)
StatsWhereLoop(acc, filters, ord) ==
  IF Len(ord) = 0 THEN acc
  ELSE StatsWhereLoop(StatsWhereStep(acc, ord[1], filters[ord[1]]), filters, Tail(ord))

\* fmt.Sprintf(`%s("%s") as %s`, ...) of the statistics query
AggregateOf(fn, column, alias) == <<fn, "(">> \o Quote(column) \o <<") as ", alias>>

\* PERCENTILE_CONT(p) WITHIN GROUP (ORDER BY "%s") as alias
PercentileOf(p, column, alias) ==
  <<"PERCENTILE_CONT(", p, ") WITHIN GROUP (ORDER BY ">> \o Quote(column)
    \o <<") as ", alias>>

\* GetStats up to conn.QueryRowContext(ctx, query, args...)
GetStatsQuery(column, filters, ord) ==
  LET w == StatsWhereLoop([query |-> <<"WHERE 1=1">>, args |-> <<>>], filters, ord)
  IN [query |-> <<"SELECT COUNT(*) as count, ">>
                  \o <<"COUNT(DISTINCT ">> \o Quote(column) \o <<") as distinct_count">>
                  \o <<", ">> \o AggregateOf("MIN", column, "min")
                  \o <<", ">> \o AggregateOf("MAX", column, "max")
                  \o <<", ">> \o AggregateOf("AVG", column, "mean")
                  \o <<", ">> \o AggregateOf("MEDIAN", column, "median")
                  \o <<", ">> \o AggregateOf("STDDEV", column, "stddev")
                  \o <<", ">> \o PercentileOf("0.25", column, "q25")
                  \o <<", ">> \o PercentileOf("0.75", column, "q75")
                  \o <<" FROM data ">> \o w.query,
      args |-> w.args,
      where |-> w.query]

\* GetTopValues: one pass of the loop over filters
TopWhereStep(acc, key, value) ==
  IF IsSentinel(value) THEN acc
  ELSE [query |-> acc.query \o <<" AND ">> \o Quote(key) \o <<" = ?">>,
        args |-> Append(acc.args, value)]

RECURSIVE TopWhereLoop(_, _, _)
TopWhereLoop(acc, filters, ord) ==
  IF Len(ord) = 0 THEN acc
  ELSE TopWhereLoop(TopWhereStep(acc, ord[1], filters[ord[1]]), filters, Tail(ord))

\* GetTopValues up to conn.QueryContext(ctx, query, args...)
GetTopValuesQuery(column, limit, filters, ord) ==
  LET w == TopWhereLoop([query |-> <<"WHERE 1=1">>, args |-> <<>>], filters, ord)
  IN [query |-> <<"SELECT ", column, " as value, COUNT(*) as count, ",
                  "COUNT(*) * 100.0 / (SELECT COUNT(*) FROM data ">>
                  \o w.query \o <<") as percentage FROM data ">> \o w.query
                  \o <<" GROUP BY ">> \o Quote(column)
                  \o <<" ORDER BY count DESC", " LIMIT ", ToString(limit)>>,
      args |-> w.args,
      where |-> w.query]

\* row := conn.QueryRowContext(ctx, query, args...) of GetStats
BuildStats ==
  /\ qry.fn = ""
  /\ \E column \in Cols, ord \in RangeOrders(qry.params.Filters) :
       LET r == GetStatsQuery(column, qry.params.Filters, ord)
       IN qry' = [fn |-> "GetStats", params |-> qry.params, ord |-> ord,
                  query |-> r.query, args |-> r.args, where |-> r.where]
  /\ UNCHANGED <<mem, recent, fill, jobs, heap, removed, th, runs, fs, pool, handles, now, crashed>>

\* rows, err := conn.QueryContext(ctx, query, args...) of GetTopValues
BuildTop ==
  /\ qry.fn = ""
  /\ \E column \in Cols, limit \in 1..(MaxLimit + 1),
        ord \in RangeOrders(qry.params.Filters) :
       LET r == GetTopValuesQuery(column, limit, qry.params.Filters, ord)
       IN qry' = [fn |-> "GetTopValues", params |-> qry.params, ord |-> ord,
                  query |-> r.query, args |-> r.args, where |-> r.where]
  /\ UNCHANGED <<mem, recent, fill, jobs, heap, removed, th, runs, fs, pool, handles, now, crashed>>

\* every builder
BNext == BuildFilter \/ BuildAgg \/ BuildStats \/ BuildTop

SpecBuilders == QInit /\ [][BNext]_vars

(***************************************************************************)
(* cache.Manager.GenerateKey for the data of GetStats:                     *)
(* map[string]interface{}{"uuid": uuid, "column": column, "filters":       *)
(* filters}.  json.Marshal visits a map in some range order, sorts the     *)
(* keys and writes the entries in that order.  md5.Sum is taken as a value *)
(* that the bytes determine.                                               *)
(***************************************************************************)
\* the place of a key among the keys of the model in the order of their bytes
KeyRank(key) ==
  CASE key = "c1" -> 1
    [] key = "c3" -> 2
    [] key = "column" -> 3
    [] key = "fecha" -> 4
    [] key = "filters" -> 5
    [] key = "uuid" -> 6

\* json.Marshal that writes the entries of a map as range delivers them
SortKeys_Keep(keys) == keys

\* encoding/json: the keys of a map, sorted
SortKeys(keys) ==
  CHOOSE p \in [DOMAIN keys -> {keys[i] : i \in DOMAIN keys}] :
    \A i, j \in DOMAIN p : i < j => KeyRank(p[i]) < KeyRank(p[j])

MarshalString(str) == <<"\"", str, "\"">>

MarshalValue(value) ==
  CASE value.kind = "nil" -> <<"null">>
    [] value.kind = "string" -> MarshalString(value.s)
    [] value.kind = "list" ->
         <<"[">> \o JoinTexts([i \in DOMAIN value.arr |-> MarshalString(value.arr[i])],
                              ",")
                 \o <<"]">>

MarshalFilters(filters, ord) ==
  LET keys == SortKeys(ord) IN
  <<"{">> \o JoinTexts([i \in DOMAIN keys |->
                          MarshalString(keys[i]) \o <<":">>
                            \o MarshalValue(filters[keys[i]])], ",")
          \o <<"}">>

MarshalData(data, ord, inner) ==
  LET keys == SortKeys(ord) IN
  <<"{">> \o JoinTexts([i \in DOMAIN keys |->
                          MarshalString(keys[i]) \o <<":">>
                            \o (IF keys[i] = "filters"
                                THEN MarshalFilters(data[keys[i]], inner)
                                ELSE MarshalString(data[keys[i]]))], ",")
          \o <<"}">>

Md5(bytes) == [sum |-> bytes]

\* GenerateKey, with the range orders of its json.Marshal
GenerateKey(prefix, data, ord, inner) ==
  <<prefix, ":", Md5(MarshalData(data, ord, inner))>>

StatsData(filters) ==
  [k \in {"uuid", "column", "filters"} |->
     CASE k = "uuid" -> "u1"
       [] k = "column" -> "c1"
       [] k = "filters" -> filters]

\* two calls of GenerateKey with the same prefix and data
GenKey ==
  /\ qry.fn = ""
  /\ \E prefix \in {"stats", "top"},
        ord1 \in RangeOrders(StatsData(qry.params.Filters)),
        ord2 \in RangeOrders(StatsData(qry.params.Filters)),
        inner1 \in RangeOrders(qry.params.Filters),
        inner2 \in RangeOrders(qry.params.Filters) :
       qry' = [fn |-> "GenerateKey", params |-> qry.params, prefix |-> prefix,
               orders |-> <<ord1, inner1, ord2, inner2>>,
               first |-> GenerateKey(prefix, StatsData(qry.params.Filters),
                                     ord1, inner1),
               second |-> GenerateKey(prefix, StatsData(qry.params.Filters),
                                      ord2, inner2)]
  /\ UNCHANGED <<mem, recent, fill, jobs, heap, removed, th, runs, fs, pool, handles, now, crashed>>

KNext == GenKey

SpecKey == QInit /\ [][KNext]_vars

(***************************************************************************)
(* Manager.GetStats on a handle that GetConnection returned.  The table    *)
(* data has the numeric column "v" and the text column "g"; the filters    *)
(* are scalars on "g".  The engine answers an aggregate query without      *)
(* GROUP BY with exactly one row; over no rows COUNT is 0 and every other  *)
(* aggregate is NULL, and STDDEV (the sample deviation) is NULL over one   *)
(* row.  row.Scan cannot store NULL in a float64.                          *)
(***************************************************************************)
Tables == SeqsUpTo([v : 1..MaxVal, g : {"x", "y"}], MaxRows)

StatsFilters ==
  {f \in UNION {[K -> {Str(x) : x \in {"", "Todas", "x", "y"}}] : K \in SUBSET {"g"}} :
     TRUE}

Null == [null |-> TRUE, val |-> 0]
Num(n) == [null |-> FALSE, val |-> n]

\* a value of the engine that the model does not compute
SomeNumber == [null |-> FALSE, val |-> "number"]

ErrScanNull == "sql: Scan error: converting NULL to float64 is unsupported"

\* the rows that WHERE 1=1 AND "key" = ? ... keeps
StatsRows(table, filters) ==
  SelectSeq(table, LAMBDA r :
              \A k \in DOMAIN filters :
                IsSentinel(filters[k]) \/ r[k] = filters[k].s)

ColumnValues(rows) == {rows[i].v : i \in DOMAIN rows}

SetMin(S) == CHOOSE m \in S : \A n \in S : m <= n

SetMax(S) == CHOOSE m \in S : \A n \in S : m >= n

\* the one row of the statistics query
StatsRow(rows) ==
  [count |-> Num(Len(rows)),
   distinct_count |-> Num(Cardinality(ColumnValues(rows))),
   min |-> IF Len(rows) = 0 THEN Null ELSE Num(SetMin(ColumnValues(rows))),
   max |-> IF Len(rows) = 0 THEN Null ELSE Num(SetMax(ColumnValues(rows))),
   mean |-> IF Len(rows) = 0 THEN Null ELSE SomeNumber,
   median |-> IF Len(rows) = 0 THEN Null ELSE SomeNumber,
   stddev |-> IF Len(rows) < 2 THEN Null ELSE SomeNumber,
   q25 |-> IF Len(rows) = 0 THEN Null ELSE SomeNumber,
   q75 |-> IF Len(rows) = 0 THEN Null ELSE SomeNumber]

FloatFields == {"min", "max", "mean", "median", "stddev", "q25", "q75"}

\* GetStats from row.Scan on: the map it returns, or the error
GetStats(table, filters) ==
  LET row == StatsRow(StatsRows(table, filters)) IN
  IF \E c \in FloatFields : row[c].null
  THEN [stats |-> <<>>, err |-> ErrScanNull]
  ELSE [stats |-> [c \in DOMAIN row \cup {"iqr"} |->
                     IF c = "iqr" THEN SomeNumber ELSE row[c]],
        err |-> ""]

SInit ==
  /\ mem = NewLRUCache(MemorySize)
  /\ recent = <<>>
  /\ fill = 0
  /\ ProcInit
  /\ \E f \in StatsFilters, t \in Tables :
       qry = [fn |-> "", params |-> [Filters |-> f], table |-> t]

\* stats, err := h.datasetManager.GetStats(r.Context(), uuid, column, filters)
CallGetStats ==
  /\ qry.fn = ""
  /\ LET r == GetStats(qry.table, qry.params.Filters) IN
     qry' = [fn |-> "GetStats", params |-> qry.params, table |-> qry.table,
             stats |-> r.stats, err |-> r.err]
  /\ UNCHANGED <<mem, recent, fill, jobs, heap, removed, th, runs, fs, pool, handles, now, crashed>>

SNext == CallGetStats

SpecStats == SInit /\ [][SNext]_vars

(***************************************************************************)
(* The result cache (Redis) as the handlers use it.  A response body is a  *)
(* sequence of bytes.  SetToRedis takes value interface{} and stores       *)
(* json.Marshal(value); every handler passes the []byte it has already     *)
(* serialized, and encoding/json encodes a []byte as a string in base64.   *)
(***************************************************************************)
RKeys == 1..NumRKeys

\* the bytes { and }
BodyBytes == {123, 125}

Bodies == SeqsUpTo(BodyBytes, MaxBody) \ {<<>>}

\* the character of the standard base64 alphabet for a 6-bit value
B64Char(i) ==
  IF i < 26 THEN 65 + i
  ELSE IF i < 52 THEN 71 + i
  ELSE IF i < 62 THEN i - 4
  ELSE IF i = 62 THEN 43 ELSE 47

RECURSIVE Base64(_)
Base64(b) ==
  IF Len(b) = 0 THEN <<>>
  ELSE LET b2 == IF Len(b) >= 2 THEN b[2] ELSE 0
           b3 == IF Len(b) >= 3 THEN b[3] ELSE 0
           n == b[1] * 65536 + b2 * 256 + b3
       IN <<B64Char(n \div 262144),
            B64Char((n \div 4096) % 64),
            IF Len(b) >= 2 THEN B64Char((n \div 64) % 64) ELSE 61,
            IF Len(b) >= 3 THEN B64Char(n % 64) ELSE 61>>
          \o Base64(IF Len(b) > 3 THEN SubSeq(b, 4, Len(b)) ELSE <<>>)

\* json.Marshal of a []byte: the base64 text between double quotes
MarshalBytes(b) == <<34>> \o Base64(b) \o <<34>>

NoValue == [found |-> FALSE, val |-> <<>>]

\* Manager.GetFromRedis: val, err := m.redis.Get(m.ctx, key).Bytes()
GetFromRedis(redis, key) == redis[key]

\* Manager.SetToRedis: data, err := json.Marshal(value); m.redis.Set(...)
SetToRedis(redis, key, value) ==
  [redis EXCEPT ![key] = [found |-> TRUE, val |-> MarshalBytes(value)]]

NoResponse == [key |-> 0, cache |-> "", body |-> <<>>]

RInit ==
  /\ mem = NewLRUCache(MemorySize)
  /\ recent = <<>>
  /\ fill = 0
  /\ ProcInit
  /\ qry = [fn |-> "", redis |-> [k \in RKeys |-> NoValue],
            sent |-> [k \in RKeys |-> <<>>], resp |-> NoResponse]

\* a handler with a result cache, from GetFromRedis to w.Write: on a hit it
\* writes the cached bytes; on a miss it serializes the result, calls
\* SetToRedis, whose error it ignores, and writes the serialized bytes
Serve ==
  \E key \in RKeys :
    LET cached == GetFromRedis(qry.redis, key) IN
    /\ \/ /\ cached.found
          /\ qry' = [qry EXCEPT !.fn = "Serve",
                                !.resp = [key |-> key, cache |-> "HIT",
                                          body |-> cached.val]]
       \/ /\ ~cached.found
          /\ \E data \in Bodies, stored \in BOOLEAN :
               qry' = [qry EXCEPT
                         !.fn = "Serve",
                         !.redis = IF stored THEN SetToRedis(@, key, data) ELSE @,
                         !.sent[key] = IF stored THEN data ELSE @,
                         !.resp = [key |-> key, cache |-> "MISS", body |-> data]]
    /\ UNCHANGED <<mem, recent, fill, jobs, heap, removed, th, runs, fs, pool, handles, now, crashed>>

\* the TTL of an entry runs out
Expire ==
  \E key \in RKeys :
    /\ qry.redis[key].found
    /\ qry' = [qry EXCEPT !.fn = "Expire", !.redis[key] = NoValue]
    /\ UNCHANGED <<mem, recent, fill, jobs, heap, removed, th, runs, fs, pool, handles, now, crashed>>

RNext == Serve \/ Expire

SpecRedis == RInit /\ [][RNext]_vars

(***************************************************************************)
(* Manager.createIndexes and the end of the pipeline.  The inputs are the  *)
(* columns that PRAGMA table_info returns, the columns on which the        *)
(* engine cannot build an index, and whether the PRAGMA and the CHECKPOINT *)
(* fail.                                                                   *)
(***************************************************************************)
IndexColumns == {"fecha", "estado civil", "tipo_fecha", "otro"}

\* strings.Contains(colLower, sub) on the column names of the model
Contains(colLower, sub) ==
  CASE colLower = "fecha" -> sub = "fecha"
    [] colLower = "estado civil" -> sub = "estado"
    [] colLower = "tipo_fecha" -> sub \in {"tipo", "fecha"}
    [] OTHER -> FALSE

Categories == <<"entidad", "estado", "municipio", "tipo", "categoria", "clasificacion">>

\* strings.Map in createIndex: every rune that is not a letter, a digit or _
\* becomes _
SafeName(columnName) == IF columnName = "estado civil" THEN "estado_civil" ELSE columnName

\* fmt.Sprintf(`CREATE INDEX IF NOT EXISTS idx_%s ON data ("%s)`, ...)
createIndexQuery(columnName) ==
  <<"CREATE INDEX IF NOT EXISTS idx_", SafeName(columnName), " ON data (",
    "\"", columnName, ")">>

\* the engine rejects a text with an unterminated quoted identifier
WellFormed(query) ==
  Cardinality({i \in DOMAIN query : query[i] = "\""}) % 2 = 0

ErrIndex == "no se pudo crear el indice"

\* createIndex: conn.ExecContext(ctx, query)
createIndex(columnName, broken) ==
  IF WellFormed(createIndexQuery(columnName)) /\ columnName \notin broken
  THEN "" ELSE ErrIndex

\* one call of createIndex from the loop: the column is noted as tried, and
\* counted when err == nil
TryIndex(acc, columnName, broken) ==
  [acc EXCEPT !.tried = Append(@, columnName),
              !.indexCount = IF createIndex(columnName, broken) = ""
                             THEN @ + 1 ELSE @]

\* a pass that gives up at the first index that cannot be created
IndexStep_GiveUp(acc, col, broken) ==
  LET isDate == Contains(ToLower(col), "fecha") \/ Contains(ToLower(col), "date")
      isCat == \E i \in DOMAIN Categories : Contains(ToLower(col), Categories[i])
      a1 == IF isDate THEN TryIndex(acc, col, broken) ELSE acc
  IN IF acc.indexCount < Len(acc.tried) THEN acc
     ELSE IF isCat THEN TryIndex(a1, col, broken) ELSE a1

\* createIndexes: one pass of "for _, col := range columns"
IndexStep(acc, col, broken) ==
  LET isDate == Contains(ToLower(col), "fecha") \/ Contains(ToLower(col), "date")
      isCat == \E i \in DOMAIN Categories : Contains(ToLower(col), Categories[i])
      a1 == IF isDate THEN TryIndex(acc, col, broken) ELSE acc
  IN IF isCat THEN TryIndex(a1, col, broken) ELSE a1

RECURSIVE IndexLoop(_, _, _)
IndexLoop(acc, columns, broken) ==
  IF Len(columns) = 0 THEN acc
  ELSE IndexLoop(IndexStep(acc, columns[1], broken), Tail(columns), broken)

ErrPragma == "PRAGMA table_info failed"

createIndexes(columns, broken, pragmaFails) ==
  IF pragmaFails THEN [err |-> ErrPragma, tried |-> <<>>, indexCount |-> 0]
  ELSE [err |-> ""] @@ IndexLoop([tried |-> <<>>, indexCount |-> 0], columns, broken)

\* downloadAndConvertWithProgress from "7. Crear índices" to its return: the
\* errors of createIndexes and of CHECKPOINT are logged
FinishStore(dbPath, columns, broken, pragmaFails, checkpointFails) ==
  LET r == createIndexes(columns, broken, pragmaFails) IN
  [path |-> dbPath, err |-> "",
   warnings |-> (IF r.err # "" THEN 1 ELSE 0) + (IF checkpointFails THEN 1 ELSE 0),
   tried |-> r.tried, indexCount |-> r.indexCount]

IInit ==
  /\ mem = NewLRUCache(MemorySize)
  /\ recent = <<>>
  /\ fill = 0
  /\ ProcInit
  /\ \E columns \in SeqsUpTo(IndexColumns, MaxColumns) :
       qry = [fn |-> "", columns |-> columns]

Finish ==
  /\ qry.fn = ""
  /\ \E uuid \in Ids, broken \in SUBSET IndexColumns,
        pragmaFails \in BOOLEAN, checkpointFails \in BOOLEAN :
       qry' = [fn |-> "downloadAndConvertWithProgress", columns |-> qry.columns,
               dbPath |-> CachePath(uuid), broken |-> broken,
               pragmaFails |-> pragmaFails, checkpointFails |-> checkpointFails,
               res |-> FinishStore(CachePath(uuid), qry.columns, broken,
                                   pragmaFails, checkpointFails)]
  /\ UNCHANGED <<mem, recent, fill, jobs, heap, removed, th, runs, fs, pool, handles, now, crashed>>

INext == Finish

SpecIndex == IInit /\ [][INext]_vars

(***************************************************************************)
(* C3: after any sequence of Set calls the memory index holds at most      *)
(* capacity entries and at most maxSize bytes.                             *)
(***************************************************************************)
C3_MemoryIndexBounds ==
  /\ Len(mem.evictList) <= mem.capacity
  /\ mem.size <= mem.maxSize

(***************************************************************************)
(* C4: an entry is evicted only when it is the least recently accessed     *)
(* one: in every step every entry that leaves the cache was accessed       *)
(* (by Get hit or Set) less recently than every entry that stays.          *)
(***************************************************************************)
PosIn(r, k) == CHOOSE i \in 1..Len(r) : r[i] = k

\* the keys that a step removes from the cache; Head(r2) is the key the step
\* accessed (a new key can be inserted and evicted by the same Set)
EvictedBy(c, r2, c2) ==
  (LRUKeys(c) \cup (IF r2 = <<>> THEN {} ELSE {Head(r2)})) \ LRUKeys(c2)

C4_EvictionOrder ==
  [][\A k \in EvictedBy(mem, recent', mem'), j \in LRUKeys(mem') :
        PosIn(recent', j) < PosIn(recent', k)]_vars

\* a key that was read or updated has been evicted, and a key accessed after
\* it is still in the cache
C4_Witness ==
  \E i \in 1..Len(recent), j \in 1..Len(recent) :
    /\ recent[i] \in LKeys /\ recent[i] \notin mem.items
    /\ recent[j] \in mem.items
    /\ j < i

(***************************************************************************)
(* C1: concurrent StartDownload calls for one uuid create one job and      *)
(* launch one background run, and every caller receives the registered     *)
(* job: every job object of a uuid that CleanupOldJobs has not deleted is  *)
(* the one in the registry, each job object has exactly one launch (done   *)
(* or about to be done by its creator), and a pointer returned by          *)
(* StartDownload is the registered job unless cleanup deleted it since.    *)
(***************************************************************************)
JobsOf(u) == {o \in 1..Len(heap) : heap[o].UUID = u}

C1_SingleFlight ==
  \A u \in Ids :
    /\ \A o \in JobsOf(u) \ removed : jobs[u] = o
    /\ runs[u].async
         + Cardinality({t \in Reqs : th[t].pc = "sd_go" /\ th[t].uuid = u})
       = Cardinality(JobsOf(u))
    /\ \A t \in Reqs :
         th[t].pc \in {"sd_go", "gf_resp"} /\ th[t].uuid = u
           => th[t].job = jobs[u] \/ th[t].job \in removed

\* two requests in flight hold the pointer of the only job, launched once
C1_Witness ==
  \E t1, t2 \in Reqs :
    /\ t1 # t2
    /\ th[t1].pc = "gf_resp" /\ th[t2].pc = "gf_resp"
    /\ th[t1].res = "created" /\ th[t2].res = StatusPending
    /\ th[t1].job = th[t2].job
    /\ Len(heap) = 1 /\ runs[th[t1].uuid].async = 1

(***************************************************************************)
(* C2: across GetConnection and StartDownload the pipeline runs at most    *)
(* once for a dataset id.                                                  *)
(***************************************************************************)
C2_PipelineAtMostOnce == \A u \in Ids : RunsOf(u) <= 1

(***************************************************************************)
(* C5: a job starts Pending and its status changes only along the edges    *)
(* of the job state machine.                                               *)
(***************************************************************************)
JobEdges ==
  {<<StatusPending, StatusDownloading>>, <<StatusDownloading, StatusProcessing>>,
   <<StatusProcessing, StatusReady>>, <<StatusDownloading, StatusFailed>>,
   <<StatusProcessing, StatusFailed>>}

C5_StatusEdges ==
  [][/\ \A o \in 1..Len(heap) :
          heap'[o].Status # heap[o].Status
            => <<heap[o].Status, heap'[o].Status>> \in JobEdges
     /\ \A o \in (Len(heap) + 1)..Len(heap') : heap'[o].Status = StatusPending]_vars

\* a job went the whole success path, and CleanupOldJobs made room for a
\* second one
C5_Witness ==
  \E o1, o2 \in 1..Len(heap) :
    /\ heap[o1].Status = StatusReady /\ heap[o1].Progress = 100
    /\ o1 \in removed
    /\ heap[o2].Status = StatusDownloading

(***************************************************************************)
(* C6: when the load of the downloaded file fails, the job is Processing   *)
(* before it becomes Failed.                                               *)
(***************************************************************************)
C6_LoadFailureAfterProcessing ==
  [][\A o \in 1..Len(heap) :
       /\ heap[o].Status # StatusFailed
       /\ heap'[o].Status = StatusFailed
       /\ heap'[o].Error = ErrLoad
       => heap[o].Status = StatusProcessing]_vars

(***************************************************************************)
(* C7: Ready and Failed are terminal: no step changes a field of a job     *)
(* that is Ready or Failed, and its registry entry changes only by         *)
(* CleanupOldJobs deleting it.                                             *)
(***************************************************************************)
Terminal(job) == job.Status \in {StatusReady, StatusFailed}

C7_TerminalIsFinal ==
  [][/\ \A o \in 1..Len(heap) : Terminal(heap[o]) => heap'[o] = heap[o]
     /\ \A u \in Ids :
          jobs[u] # 0 /\ Terminal(heap[jobs[u]]) /\ jobs'[u] # jobs[u]
            => jobs'[u] = 0 /\ jobs[u] \in removed']_vars

\* time passed over a job that ended, and a later StartDownload found the
\* job Ready and returned it
C7_Witness ==
  /\ \E t \in Reqs : th[t].pc = "gf_resp" /\ th[t].res = StatusReady /\ now > 1
  /\ \E o \in 1..Len(heap) : Terminal(heap[o]) /\ heap[o].EndTime < now

(***************************************************************************)
(* C8: the background run of a job is never stopped: a job that is not     *)
(* Ready or Failed always has a running process to finish it.              *)
(***************************************************************************)
C8_RunNeverStopped ==
  \A o \in 1..Len(heap) : ~Terminal(heap[o]) => ~crashed

(***************************************************************************)
(* C9: StartDownload for a uuid with a registered job, whatever its        *)
(* status, returns that job, creates nothing and launches nothing; the     *)
(* registry entry of a uuid is replaced only after CleanupOldJobs deleted  *)
(* it.                                                                     *)
(***************************************************************************)
C9_ExistingJobReturned ==
  [][/\ \A t \in Reqs :
          /\ th[t].pc = "sd_lock" /\ th'[t].pc # "sd_lock"
          /\ jobs[th[t].uuid] # 0
          => /\ th'[t].job = jobs[th[t].uuid]
             /\ th'[t].pc = "gf_resp"
             /\ jobs' = jobs /\ heap' = heap /\ runs' = runs
     /\ \A u \in Ids :
          jobs[u] # 0 /\ jobs'[u] # jobs[u]
            => jobs'[u] = 0 /\ jobs[u] \in removed']_vars

\* StartDownload found a Failed job and returned it; no second run exists
C9_Witness ==
  \E t \in Reqs :
    /\ th[t].pc = "gf_resp" /\ th[t].res = StatusFailed
    /\ th[t].job = jobs[th[t].uuid]
    /\ RunsOf(th[t].uuid) = 1

(***************************************************************************)
(* C10: SetToDisk for a uuid whose file is already in the disk store       *)
(* returns no error and changes no file.                                   *)
(***************************************************************************)
C10_DiskPlacementIdempotent ==
  [][\A t \in Reqs :
       /\ th[t].pc = "gc_setdisk" /\ th'[t].pc = "gc_setmem"
       /\ Exists(fs, CachePath(th[t].uuid))
       => fs' = fs /\ th'[t].diskErr = ""]_vars

\* a second acquisition finished while the file of another one was in the
\* disk store: its SetToDisk left both files where they were
C10_Witness ==
  \E t \in Reqs :
    /\ th[t].pc = "gc_setmem" /\ th[t].diskErr = ""
    /\ Exists(fs, TmpPath(th[t].uuid)) /\ fs[TmpPath(th[t].uuid)].run = th[t].run
    /\ Exists(fs, CachePath(th[t].uuid))
    /\ fs[CachePath(th[t].uuid)].run # th[t].run
    /\ fs[CachePath(th[t].uuid)].st = "final"

(***************************************************************************)
(* C11: a resolution through GetConnection that misses the memory index    *)
(* while the converted store of the dataset is in the disk store (it was   *)
(* acquired and its entry evicted) is served from the disk store: it       *)
(* starts no pipeline run, goes on to open the file of the disk store,     *)
(* and nothing in the program's state makes the ping of that file fail.    *)
(***************************************************************************)
Acquired(u) == fs[CachePath(u)].st = "final"

C11_RoundTrip ==
  [][\A t \in Reqs :
       LET u == th[t].uuid IN
       /\ th[t].pc = "gc_disk" /\ th'[t].pc # "gc_disk" /\ Acquired(u)
            => /\ th'[t].pc = "gc_promote"
               /\ th'[t].path = CachePath(u)
               /\ runs' = runs
       /\ th[t].pc = "gc_promote" /\ th'[t].pc # "gc_promote" /\ Acquired(u)
            => th'[t].pc = "oc_open" /\ th'[t].path = CachePath(u)
       /\ th[t].pc = "oc_open" /\ th[t].path = CachePath(u) /\ Acquired(u)
            => CanPing(th[t].path)]_vars

\* the job of the dataset is Ready (its store was registered), the entry is
\* no longer in the memory index, where the other dataset now is, and a
\* resolution that missed the memory index has found the file of the disk
\* store; the pipeline ran once
C11_Witness ==
  \E t \in Reqs, o \in 1..Len(heap) :
    /\ heap[o].Status = StatusReady /\ heap[o].UUID = th[t].uuid
    /\ th[t].pc = "gc_promote" /\ th[t].path = CachePath(th[t].uuid)
    /\ OtherKey \in mem.items /\ th[t].uuid \notin mem.items
    /\ RunsOf(th[t].uuid) = 1

(***************************************************************************)
(* C12: GetConnection consults the handle pool, then the memory index,     *)
(* then the disk store, and the first hit wins; it starts the synchronous  *)
(* pipeline only after it missed all three, each at the moment it was      *)
(* consulted; a disk hit is put into the memory index before the handle    *)
(* is opened.                                                              *)
(***************************************************************************)
MemValue(c, key) == c.evictList[ElemOf(c, key)].value

C12_ResolutionOrder ==
  [][/\ \A t \in Reqs :
          LET u == th[t].uuid
              pc == th[t].pc
              pc2 == th'[t].pc IN
          /\ pc = "gc_pool" /\ pc2 # pc
               => pc2 = (IF pool[u] # 0 THEN "idle" ELSE "gc_mem")
          /\ pc = "gc_mem" /\ pc2 # pc
               => IF u \in mem.items
                  THEN pc2 = "oc_open" /\ th'[t].path = MemValue(mem, u)
                  ELSE pc2 = "gc_disk"
          /\ pc = "gc_disk" /\ pc2 # pc
               => IF Exists(fs, CachePath(u))
                  THEN pc2 = "gc_promote" /\ runs' = runs
                  ELSE pc2 = "p_download" /\ runs'[u].sync = runs[u].sync + 1
          /\ pc = "gc_promote" /\ pc2 # pc
               => /\ pc2 = "oc_open"
                  /\ u \in mem'.items /\ MemValue(mem', u) = CachePath(u)
                  /\ handles' = handles
          /\ pc2 = "gc_mem" /\ pc # pc2 => pc = "gc_pool"
          /\ pc2 = "gc_disk" /\ pc # pc2 => pc = "gc_mem"
          /\ pc2 = "p_download" /\ pc # pc2 => pc = "gc_disk"
     /\ \A u \in Ids :
          runs'[u].sync # runs[u].sync
            => \E t \in Reqs : /\ th[t].uuid = u
                               /\ th[t].pc = "gc_disk" /\ th'[t].pc = "p_download"]_vars

\* one resolution missed the three tiers and ran the pipeline; another one,
\* which missed the pool and the memory index, has hit the disk store
C12_Witness ==
  \E t \in Reqs :
    /\ th[t].pc = "gc_promote"
    /\ runs[th[t].uuid].sync = 1 /\ runs[th[t].uuid].async = 0
    /\ th[t].uuid \notin mem.items /\ pool[th[t].uuid] = 0

(***************************************************************************)
(* C13: when two callers resolve the same dataset concurrently and both    *)
(* open a new handle, the handle registered first stays in the pool: a     *)
(* later duplicate open does not replace it.                               *)
(***************************************************************************)
C13_FirstResolverWins ==
  [][\A u \in Ids : pool[u] # 0 => pool'[u] = pool[u]]_vars

(***************************************************************************)
(* C14: whenever a job can be seen with status Ready, the call             *)
(* SetToMemory(id, path) of its run has returned: the store is put into    *)
(* the memory index before Ready is written, and no job is Ready without.  *)
(***************************************************************************)
C14_ReadyAfterSetToMemory ==
  /\ \A o \in 1..Len(heap) :
       heap[o].Status = StatusReady => th[BgOf(o)].reg
  /\ \A o \in 1..Len(heap) :
       th[BgOf(o)].pc = "bg_ready"
         => /\ th[BgOf(o)].reg
            /\ heap[o].Status = StatusProcessing

\* the run has registered the store and its job is not Ready yet
C14_Witness ==
  \E o \in 1..Len(heap) :
    /\ th[BgOf(o)].pc = "bg_ready" /\ th[BgOf(o)].reg
    /\ heap[o].UUID \in mem.items
    /\ MemValue(mem, heap[o].UUID) = CachePath(heap[o].UUID)
    /\ heap[o].Status = StatusProcessing

(***************************************************************************)
(* C15: a failure of resource resolution, of the download or of the        *)
(* whole-table load ends the attempt: the job is Failed with a non-empty   *)
(* error message and a set end time, its run takes no further step, and    *)
(* that run has not put the dataset into the memory index.                 *)
(***************************************************************************)
PipelineErrors == {ErrResource, ErrDownload, ErrLoad}

C15_FailureIsFatal ==
  \A o \in 1..Len(heap) :
    /\ th[BgOf(o)].pc = "bg_fail"
         => /\ th[BgOf(o)].err \in PipelineErrors
            /\ ~th[BgOf(o)].reg
            /\ heap[o].Status = StatusDownloading
    /\ heap[o].Status = StatusFailed
         => /\ heap[o].ErrorMsg \in PipelineErrors /\ heap[o].ErrorMsg # ""
            /\ heap[o].EndTime # ZeroTime
            /\ th[BgOf(o)].pc = "done"
            /\ ~th[BgOf(o)].reg

\* a job whose load failed after the download had completed
C15_Witness ==
  \E o \in 1..Len(heap) :
    /\ heap[o].Status = StatusFailed /\ heap[o].ErrorMsg = ErrLoad
    /\ heap[o].Downloaded = MaxChunk
    /\ th[BgOf(o)].pc = "done"
    /\ heap[o].UUID \notin mem.items

(***************************************************************************)
(* C16: while a job is Downloading and its total size is known (> 0), its  *)
(* progress is 80 * downloaded / total and lies within 0..80; the progress *)
(* is 95 while the job is Processing and 100 when it is Ready.             *)
(***************************************************************************)
C16_ProgressConvention ==
  \A o \in 1..Len(heap) :
    /\ heap[o].Status = StatusDownloading /\ heap[o].FileSize > 0
         => /\ heap[o].Progress * heap[o].FileSize = 80 * heap[o].Downloaded
            /\ heap[o].Progress >= 0 /\ heap[o].Progress <= 80
    /\ heap[o].Status = StatusProcessing => heap[o].Progress = 95
    /\ heap[o].Status = StatusReady => heap[o].Progress = 100

\* half of the announced size has arrived
C16_Witness ==
  \E o \in 1..Len(heap) :
    /\ heap[o].Status = StatusDownloading
    /\ heap[o].FileSize = 2 /\ heap[o].Downloaded = 1
    /\ heap[o].Progress = 40

(***************************************************************************)
(* C17: GetJob returns a copy.  GetJob changes nothing in the registry     *)
(* and finds no job for an id without one; a caller that writes to the     *)
(* object it got leaves the registered job as it was; and an update of the *)
(* registered job leaves an object handed out earlier as it was.           *)
(***************************************************************************)
C17_GetJobReturnsCopy ==
  [][\A t \in Reqs :
       LET u == th[t].uuid IN
       /\ th[t].pc = "st_getjob" /\ th'[t].pc # "st_getjob"
            => /\ jobs' = jobs /\ heap' = heap
               /\ IF jobs[u] = 0
                  THEN th'[t].pc = "st_mem"
                  ELSE /\ th'[t].pc = "st_build"
                       /\ Seen(th[t])' = [heap[jobs[u]] EXCEPT
                                            !.ErrorMsg = heap[jobs[u]].Error]
       /\ th[t].pc = "st_build" /\ th'[t].pc = "st_build"
            => \/ \* the caller wrote to its object
                  /\ Seen(th[t])' # Seen(th[t])
                  /\ Seen(th[t])' = [Seen(th[t]) EXCEPT !.Message = CallerMessage]
                  /\ jobs' = jobs /\ heap' = heap
               \/ \* some other step, maybe an update of the registered job
                  Seen(th[t])' = Seen(th[t])]_vars

\* a caller holds an object that it changed and that shows the job as
\* Downloading, while the registered job went on to Ready with its own message
C17_Witness ==
  \E t \in Reqs :
    /\ th[t].pc = "st_build"
    /\ th[t].copy.Message = CallerMessage
    /\ th[t].copy.Status = StatusDownloading
    /\ jobs[th[t].uuid] # 0
    /\ heap[jobs[th[t].uuid]].Status = StatusReady
    /\ heap[jobs[th[t].uuid]].Message = "Dataset listo para consultar"

(***************************************************************************)
(* C18: GetDownloadStatus for an id without a registered job answers       *)
(* "ready" with progress 100 when the dataset is in the memory index or in *)
(* the disk store, and "not_found" with HTTP 404 and the hint to call      *)
(* /api/filters first when it is in neither; for an id with a registered   *)
(* job it answers with the status of that job.                             *)
(***************************************************************************)
C18_StatusSurface ==
  [][\A t \in Reqs :
       LET u == th[t].uuid IN
       /\ th[t].pc = "st_getjob" /\ th'[t].pc # "st_getjob"
            => IF jobs[u] = 0
               THEN th'[t].pc = "st_mem"
               ELSE /\ th'[t].pc = "st_build"
                    /\ th'[t].copy.Status = heap[jobs[u]].Status
                    /\ th'[t].copy.Progress = heap[jobs[u]].Progress
       /\ th[t].pc = "st_build" /\ th'[t].pc # "st_build"
            => /\ th'[t].pc = "st_sent"
               /\ th'[t].resp.code = 200
               /\ th'[t].resp.status = th[t].copy.Status
               /\ th'[t].resp.progress = th[t].copy.Progress
       /\ th[t].pc = "st_mem" /\ th'[t].pc # "st_mem"
            => /\ th'[t].pc = "st_disk"
               /\ th'[t].inMem = (u \in mem.items)
       /\ th[t].pc = "st_disk" /\ th'[t].pc # "st_disk"
            => /\ th'[t].pc = "st_sent"
               /\ IF th[t].inMem \/ Exists(fs, CachePath(u))
                  THEN /\ th'[t].resp.code = 200
                       /\ th'[t].resp.status = "ready"
                       /\ th'[t].resp.progress = 100
                  ELSE /\ th'[t].resp.code = 404
                       /\ th'[t].resp.status = "not_found"
                       /\ th'[t].resp.message =
                            "Dataset no encontrado. Llama a /api/filters/:uuid primero."
       /\ th'[t].pc = "st_sent" /\ th[t].pc # "st_sent"
            => th[t].pc \in {"st_build", "st_disk"}]_vars

\* the answer "ready" for a dataset that is on disk only and whose job
\* CleanupOldJobs has deleted
C18_Witness ==
  \E t \in Reqs :
    /\ th[t].pc = "st_sent" /\ th[t].resp = RespCached
    /\ jobs[th[t].uuid] = 0 /\ Len(heap) >= 1
    /\ ~th[t].inMem /\ Exists(fs, CachePath(th[t].uuid))

(***************************************************************************)
(* C19: a failed cache write never aborts the request.  When SetToDisk     *)
(* returns an error the resolution goes on with the same path, and the     *)
(* openConnection that follows finds what it would have found had the      *)
(* write succeeded, so that the resolution ends with the same result.      *)
(***************************************************************************)
C19_FailedWriteSameResult ==
  [][\A t \in Reqs :
       th[t].pc = "gc_setdisk" /\ th'[t].pc # "gc_setdisk" /\ th'[t].diskErr # ""
         => /\ th'[t].pc = "gc_setmem"
            /\ th'[t].path = th[t].path
            /\ Exists(fs', th[t].path)
                 = Exists(DiskSet(fs, th[t].uuid, th[t].path).fs, th[t].path)]_vars

(***************************************************************************)
(* C20: in the query of buildFilterQuery and in that of                    *)
(* buildAggregationQuery, a filter whose value is nil, "" or "Todas", and  *)
(* a filter whose value is an empty list, adds no condition to the WHERE   *)
(* clause and no argument: the conditions are those of the other filters,  *)
(* and the arguments are the values of the other filters.                  *)
(***************************************************************************)
SilentValue(value) == value \in {Nil, Str(""), Str("Todas"), List(<<>>)}

LiveKeys(filters) == {k \in DOMAIN filters : ~SilentValue(filters[k])}

\* the places of a text where a condition on a column ends, and the columns
CondAt(query) == {i \in DOMAIN query : query[i] \in {" = ?", " IN ("}}
CondKeys(query) == {query[i - 2] : i \in CondAt(query)}
NumPlaceholders(query) ==
  Cardinality({i \in DOMAIN query : query[i] \in {" = ?", "?"}})

RECURSIVE LiveArgs(_, _)
LiveArgs(filters, ord) ==
  IF Len(ord) = 0 THEN <<>>
  ELSE (IF SilentValue(filters[ord[1]]) THEN <<>>
        ELSE IF filters[ord[1]].kind = "list" THEN filters[ord[1]].arr
        ELSE <<filters[ord[1]].s>>)
       \o LiveArgs(filters, Tail(ord))

C20_SentinelsContributeNothing ==
  qry.fn # ""
    => /\ \A k \in DOMAIN qry.params.Filters :
            SilentValue(qry.params.Filters[k]) => k \notin CondKeys(qry.query)
       /\ CondKeys(qry.query) = LiveKeys(qry.params.Filters)
       /\ Cardinality(CondAt(qry.query)) = Cardinality(LiveKeys(qry.params.Filters))
       /\ qry.args = LiveArgs(qry.params.Filters, qry.ord)
       /\ NumPlaceholders(qry.query) = Len(qry.args)

\* an aggregation query for a map with the placeholder "Todas" on one column
\* and a list on the other
C20_Witness ==
  /\ qry.fn = "buildAggregationQuery"
  /\ DOMAIN qry.params.Filters = {"c1", "fecha"}
  /\ qry.params.Filters["c1"] = Str("Todas")
  /\ qry.params.Filters["fecha"] = List(<<"x", "Todas">>)
  /\ qry.args = <<"x", "Todas">>
  /\ CondKeys(qry.query) = {"fecha"}

(***************************************************************************)
(* C21: the builders bind every filter value as a parameter.  In the order *)
(* in which the filters are visited, a scalar filter gives one equality    *)
(* with one placeholder and a list of n elements one IN with n             *)
(* placeholders; the arguments are these values in the order of their      *)
(* placeholders; and no value is part of the text.                         *)
(***************************************************************************)
\* the conditions of a text, in the order of the text: column, operator and
\* number of placeholders
RECURSIVE CountUntilClose(_, _)
CountUntilClose(query, i) ==
  IF i > Len(query) \/ query[i] = ")" THEN 0
  ELSE (IF query[i] = "?" THEN 1 ELSE 0) + CountUntilClose(query, i + 1)

CondSeq(query) ==
  LET at == SelectSeq([i \in 1..Len(query) |-> i],
                      LAMBDA i : query[i] \in {" = ?", " IN ("})
  IN [n \in 1..Len(at) |->
        [key |-> query[at[n] - 2],
         op |-> query[at[n]],
         holes |-> IF query[at[n]] = " = ?" THEN 1
                   ELSE CountUntilClose(query, at[n] + 1)]]

\* what the filters ask for, in the order of the visit
WantedConds(filters, ord) ==
  LET live == SelectSeq(ord, LAMBDA k : ~SilentValue(filters[k]))
  IN [n \in 1..Len(live) |->
        [key |-> live[n],
         op |-> IF filters[live[n]].kind = "list" THEN " IN (" ELSE " = ?",
         holes |-> IF filters[live[n]].kind = "list"
                   THEN Len(filters[live[n]].arr) ELSE 1]]

FilterTexts(filters) ==
  UNION {IF filters[k].kind = "list"
         THEN {filters[k].arr[i] : i \in DOMAIN filters[k].arr}
         ELSE IF filters[k].kind = "string" THEN {filters[k].s} ELSE {} :
         k \in DOMAIN filters}

C21_ValuesAreBound ==
  qry.fn # ""
    => /\ CondSeq(qry.query) = WantedConds(qry.params.Filters, qry.ord)
       /\ qry.args = LiveArgs(qry.params.Filters, qry.ord)
       /\ \A i \in DOMAIN qry.query :
            qry.query[i] \notin FilterTexts(qry.params.Filters)
       /\ Cardinality({i \in DOMAIN qry.query : qry.query[i] \in {" = ?", "?"}})
            = Len(qry.args)

\* a filter query with a list of two on one column, visited first, and a
\* scalar on the other
C21_Witness ==
  /\ qry.fn = "buildFilterQuery"
  /\ qry.ord = <<"fecha", "c1">>
  /\ qry.params.Filters["fecha"] = List(<<"Todas", "x">>)
  /\ qry.params.Filters["c1"] = Str("x")
  /\ qry.args = <<"Todas", "x", "x">>
  /\ Len(CondSeq(qry.query)) = 2

(***************************************************************************)
(* C22: an aggregation query without an order column orders by the first   *)
(* group-by column, ascending, when there are group-by columns, and by     *)
(* total, descending, when there are none.                                 *)
(***************************************************************************)
OrderPieces == {" ORDER BY ", " ORDER BY 1", " ORDER BY total DESC"}

OrderAt(query) == {i \in DOMAIN query : query[i] \in OrderPieces}

\* the column that the first item of the select list is made of
FirstSelected(query) ==
  query[CHOOSE i \in DOMAIN query :
          /\ query[i] \in Cols
          /\ \A j \in 1..(i - 1) : query[j] \notin Cols]

C22_DefaultOrder ==
  qry.fn = "buildAggregationQuery" /\ qry.params.OrderBy = ""
    => /\ Cardinality(OrderAt(qry.query)) = 1
       /\ \A i \in OrderAt(qry.query) :
            /\ \A j \in DOMAIN qry.query :
                 qry.query[j] \in {" WHERE ", " GROUP BY ", " as total"} => j < i
            /\ i = Len(qry.query) \/ qry.query[i + 1] = " LIMIT "
            /\ IF Len(qry.params.GroupBy) > 0
               THEN /\ qry.query[i] = " ORDER BY 1"
                    /\ FirstSelected(qry.query) = qry.params.GroupBy[1]
               ELSE qry.query[i] = " ORDER BY total DESC"
       /\ \A j \in DOMAIN qry.query : qry.query[j] \notin {" ASC", " DESC"}

\* no order column, a direction that is not used, and two group-by columns
C22_Witness ==
  /\ qry.fn = "buildAggregationQuery"
  /\ qry.params.OrderBy = "" /\ qry.params.OrderDir = "desc"
  /\ qry.params.GroupBy = <<"fecha", "c1">>
  /\ qry.params.DateFormat = "YEAR"
  /\ FirstSelected(qry.query) = "fecha"
  /\ qry.query[Len(qry.query)] = " ORDER BY 1"

(***************************************************************************)
(* C23: GenerateKey is deterministic and does not depend on the order of   *)
(* the keys of a map: two calls with the same prefix and structurally      *)
(* equal data return the same key, whatever order the maps are visited in. *)
(***************************************************************************)
C23_KeyIsDeterministic ==
  qry.fn = "GenerateKey"
    => /\ qry.first = qry.second
       /\ qry.first[1] = qry.prefix

\* two calls that visited the data and the two filters in opposite orders
C23_Witness ==
  /\ qry.fn = "GenerateKey"
  /\ Cardinality(DOMAIN qry.params.Filters) = 2
  /\ qry.orders[1] # qry.orders[3]
  /\ qry.orders[2] # qry.orders[4]
  /\ qry.first = qry.second

(***************************************************************************)
(* C24: GetStats over a result set that is empty after filtering returns   *)
(* an explicit "no rows" condition: not a scan error of the engine, and    *)
(* not statistics with undefined numeric fields.                           *)
(***************************************************************************)
C24_EmptyResultIsExplicit ==
  qry.fn = "GetStats" /\ Len(StatsRows(qry.table, qry.params.Filters)) = 0
    => /\ qry.err # ErrScanNull
       /\ qry.err # "" \/ \A c \in FloatFields : c \notin DOMAIN qry.stats

(***************************************************************************)
(* C25: CleanupOldJobs removes exactly the jobs that are Ready or Failed   *)
(* and whose end time is set and more than one hour in the past.  A step   *)
(* that deletes a registry entry deletes every such job and no other: no   *)
(* Pending, Downloading or Processing job, no job without an end time, no  *)
(* job that ended within the hour; it changes no job object.               *)
(***************************************************************************)
OldJob(uuid) ==
  /\ jobs[uuid] # 0
  /\ Terminal(heap[jobs[uuid]])
  /\ heap[jobs[uuid]].EndTime # ZeroTime
  /\ now - heap[jobs[uuid]].EndTime > Hour

BothPopulated(uuid) ==
  /\ uuid \in mem'.items
  /\ pool'[uuid] # 0
  /\ ~handles'[pool'[uuid]].closed
  /\ handles'[pool'[uuid]].uuid = uuid

C26_BothPopulated ==
  [][\A t \in Threads :
       \/ th[t].pc = "bg_ready" /\ th'[t].pc = "bg_duration"
       \/ th[t].pc = "oc_store" /\ th'[t].pc = "idle"
       => BothPopulated(th[t].uuid)]_vars

(***************************************************************************)
(* C27: a converted store is created once and is immutable afterwards.     *)
(* Once the file of a uuid exists in the cache directory, it stays the     *)
(* file that the pipeline run that created it wrote: no step of another    *)
(* run, of SetToDisk or of a resolution opens it for writing, creates it   *)
(* again or replaces it.                                                   *)
(***************************************************************************)
C27_CreatedOnce ==
  [][\A u \in Ids :
       Exists(fs, CachePath(u))
         => /\ Exists(fs', CachePath(u))
            /\ fs'[CachePath(u)].run = fs[CachePath(u)].run]_vars

(***************************************************************************)
(* C28: every path stored in the memory index is the path of a converted   *)
(* store that exists: after a resolution that missed every tier and ran    *)
(* the synchronous pipeline, the registered path is where the store is     *)
(* after SetToDisk, not the temporary path it was moved from.              *)
(***************************************************************************)
C28_IndexedPathExists ==
  \A u \in Ids : u \in mem.items => Exists(fs, MemValue(mem, u))

(***************************************************************************)
(* C29: the disk tier reports a dataset as present only if a conversion    *)
(* of it has completed successfully.  Whenever GetFilters or GetConnection *)
(* is told by GetFromDisk that the store is on disk, the file is a         *)
(* completely converted store: not one that an asynchronous run is still   *)
(* loading or indexing, and not one that a failed run left.                *)
(***************************************************************************)
C29_PresentMeansConverted ==
  [][\A t \in Reqs :
       \/ th[t].pc = "gc_disk" /\ th'[t].pc = "gc_promote"
       \/ th[t].pc = "gf_disk" /\ th'[t].pc = "gc_pool" /\ ~th[t].inMem
       => fs[CachePath(th[t].uuid)].st = "final"]_vars

(***************************************************************************)
(* C30: every read and every write of a registered job's fields happens    *)
(* under the registry lock or on a private copy.  No step writes the job   *)
(* object while a request holds the pointer that StartDownload returned    *)
(* and has yet to read Status, Progress and Message from it without the    *)
(* lock; no step writes the map dm.jobs while the background run has yet   *)
(* to read dm.jobs[uuid] without the lock.                                 *)
(***************************************************************************)
C30_NoUnlockedAccess ==
  [][/\ \A t \in Reqs :
          th[t].pc = "gf_resp" /\ th'[t].pc = "gf_resp"
            => heap'[th[t].job] = heap[th[t].job]
     /\ \A t \in Threads :
          th[t].pc = "bg_duration" /\ th'[t].pc = "bg_duration"
            => jobs' = jobs]_vars

(***************************************************************************)
(* C31: no handle is leaked.  Every handle that openConnection has opened  *)
(* and handed over is the handle registered in the pool for its uuid, or   *)
(* it has been closed, also when several callers resolve one uuid at the   *)
(* same time; and a call of Manager.Close leaves no such handle open.      *)
(***************************************************************************)
InOpenConnection(i) == \E t \in Threads : th[t].pc = "oc_store" /\ th[t].conn = i

NoLeak ==
  \A i \in 1..Len(handles) :
    \/ handles[i].closed
    \/ pool[handles[i].uuid] = i
    \/ InOpenConnection(i)

C31_NoHandleLeaked ==
  [][/\ NoLeak'
     /\ (\E i \in 1..Len(handles) : ~handles[i].closed /\ handles'[i].closed)
          => \A i \in 1..Len(handles) : handles'[i].closed \/ InOpenConnection(i)]_vars

(***************************************************************************)
(* C32: result-cache round trip.  A hit for a key, before the TTL of the   *)
(* entry has run out, is answered with exactly the bytes that were sent    *)
(* to the client on the miss that stored the entry: the body of a HIT      *)
(* response equals the body of the MISS response.                          *)
(***************************************************************************)
C32_HitEqualsMiss ==
  qry.resp.cache = "HIT" => qry.resp.body = qry.sent[qry.resp.key]

(***************************************************************************)
(* C33: in every query that a builder emits, for every filter set, the     *)
(* number of ? placeholders in the text equals the number of arguments     *)
(* bound with it; also for top values, whose WHERE clause is in the text   *)
(* twice.                                                                  *)
(***************************************************************************)
C33_PlaceholdersMatchArgs ==
  qry.fn # "" => NumPlaceholders(qry.query) = Len(qry.args)

(***************************************************************************)
(* C34: stats and top values apply the filter semantics of the filter      *)
(* query.  The conditions of their WHERE clause are those that             *)
(* buildFilterQuery builds for the same filters: none for a sentinel, IN   *)
(* with one placeholder per element for a list, an equality for a scalar;  *)
(* and the arguments they bind are as many.                                *)
(***************************************************************************)
C34_SameFilterSemantics ==
  qry.fn \in {"GetStats", "GetTopValues"}
    => /\ CondSeq(qry.where) = WantedConds(qry.params.Filters, qry.ord)
       /\ Len(qry.args) = Len(LiveArgs(qry.params.Filters, qry.ord))

(***************************************************************************)
(* C35: size accounting of the memory index.  After any sequence of Get,   *)
(* Set, Remove and Clear the recorded total size is the sum of the sizes   *)
(* of the entries held, and the lookup map and the recency list hold the   *)
(* same keys, each once.                                                   *)
(***************************************************************************)
RECURSIVE SumSizes(_)
SumSizes(list) == IF Len(list) = 0 THEN 0 ELSE list[1].size + SumSizes(Tail(list))

C35_SizeAccounting ==
  /\ mem.size = SumSizes(mem.evictList)
  /\ LRUKeys(mem) = mem.items
  /\ Len(mem.evictList) = Cardinality(mem.items)

\* a Remove took an entry of positive size out and left one of positive size
C35_Witness ==
  /\ qry.fn = "Remove" /\ qry.hit
  /\ mem.size > 0
  /\ \E key \in LKeys : key \in mem.items

(***************************************************************************)
(* C36: LRUCache.Set always terminates and releases its lock.  For every   *)
(* maxSize >= 0, every entry size >= 0 and every prior state the eviction  *)
(* loop ends; when the new entry alone is larger than maxSize, it ends     *)
(* with the cache emptied, the new entry included.                         *)
(***************************************************************************)
C36_SetTerminates ==
  /\ (qry.pc = "loop") ~> (qry.pc = "idle")
  /\ [](qry.fn = "Set" /\ qry.pc = "idle" /\ ~qry.hit /\ qry.size > mem.maxSize
          => mem.evictList = <<>> /\ mem.size = 0)

\* a Set of a new entry larger than the byte budget has returned, after it
\* evicted an older entry and the new one
C36_Witness ==
  /\ qry.fn = "Set" /\ qry.pc = "idle" /\ ~qry.hit
  /\ qry.size > mem.maxSize
  /\ qry.evicted >= 2
  /\ mem.evictList = <<>>

(***************************************************************************)
(* C37: a failed liveness check is fatal for the resolution attempt.  When *)
(* the ping of a newly opened handle fails, openConnection leaves no open  *)
(* handle behind and registers nothing in the pool, and GetConnection      *)
(* returns the ping error; the pool is as it was before the attempt.  A    *)
(* handle is handed on only when the ping succeeded.                       *)
(***************************************************************************)
C37_PingFailureIsFatal ==
  [][\A t \in Reqs :
       /\ th[t].pc = "oc_open" /\ th'[t].pc = "oc_store" => CanPing(th[t].path)
       /\ th[t].pc = "oc_open" /\ th'[t].pc \notin {"oc_open", "oc_store"}
            => /\ th'[t].pc = "oc_failed"
               /\ th'[t].err = ErrPing /\ th'[t].conn = 0
               /\ pool' = pool /\ handles' = handles
       /\ th[t].pc = "oc_failed" /\ th'[t].pc # "oc_failed"
            => /\ th[t].err = ErrPing /\ th[t].conn = 0
               /\ th'[t].pc = "idle"
               /\ pool' = pool /\ handles' = handles]_vars

\* the ping failed because no file is at the path that was opened, and the
\* pool has no handle for the uuid
C37_Witness ==
  \E t \in Reqs :
    /\ th[t].pc = "oc_failed" /\ th[t].err = ErrPing
    /\ ~CanPing(th[t].path)
    /\ pool[th[t].uuid] = 0

(***************************************************************************)
(* C38: index-creation and finalization failures are not fatal.  Whatever  *)
(* the columns, and whichever of their indexes cannot be created, every    *)
(* column that calls for an index is still tried, those that succeed are   *)
(* counted, and whether or not the checkpoint fails the pipeline returns   *)
(* the path of the converted store without an error.                       *)
(***************************************************************************)
WantsIndex(col) == col \in {"fecha", "estado civil", "tipo_fecha"}

C38_IndexFailuresNotFatal ==
  qry.fn = "downloadAndConvertWithProgress"
    => /\ qry.res.err = ""
       /\ qry.res.path = qry.dbPath
       /\ ~qry.pragmaFails
            => /\ \A i \in DOMAIN qry.columns :
                    WantsIndex(qry.columns[i])
                      => \E n \in DOMAIN qry.res.tried : qry.res.tried[n] = qry.columns[i]
               /\ \A n \in DOMAIN qry.res.tried :
                    \E i \in DOMAIN qry.columns : qry.res.tried[n] = qry.columns[i]
               /\ qry.res.indexCount <= Len(qry.res.tried)

\* the index of the first column cannot be created, the second column is
\* tried after it, and the checkpoint fails
C38_Witness ==
  /\ qry.fn = "downloadAndConvertWithProgress"
  /\ qry.columns = <<"fecha", "estado civil">>
  /\ qry.broken = {"fecha"}
  /\ qry.checkpointFails /\ ~qry.pragmaFails
  /\ qry.res.tried = <<"fecha", "estado civil">>
  /\ qry.res.indexCount = 0
  /\ qry.res.err = ""

=============================================================================
